---- MODULE Spec2Model ----
(***************************************************************************)
(* A model of InferMate's retrieval engine and provider routing core:      *)
(*   - VectorStore (chunkText, addDocument, similaritySearch, getStats,    *)
(*     subscribe / notify),                                                *)
(*   - geminiService (withRetry, getEmbedding, generateImage,              *)
(*     generateVeoVideo, chatHybrid).                                      *)
(* JavaScript strings are TLA+ strings: Len, SubSeq and \o compute         *)
(* length, slicing and concatenation character by character.               *)
(***************************************************************************)
EXTENDS Integers, Sequences, FiniteSets, TLC

VARIABLES
    \* ---- chunkText applied to drawn inputs
    ckText, ckSize, ckChunks, ckPc,
    \* ---- VectorStore
    documents,      \* private documents: VectorDocument[]
    listeners,      \* private listeners: Listener[]
    calls,          \* the addDocument calls in flight, by call id
    notified,       \* log of listener invocations
    \* ---- one similaritySearch call
    srPc, srEmbedOk, srQueryEmbedding, srTopK, srResult, srOrder,
    srEarlier,      \* the finished similaritySearch calls, oldest first
    \* ---- one chatHybrid call
    chat,           \* its parameters, locals and position
    chLog,          \* the backend calls it issued, in order
    chOut,          \* what it returned or threw
    \* ---- one chatWithHuggingFace call
    hf,             \* its parameters, position, requests sent and result
    \* ---- one handleSendMessage turn of the chat panel
    turn,           \* its inputs, position, retrieved context and outcome
    \* ---- one fetchKnowledgeFromWeb call
    web,            \* its topic, position, requests sent and result
    \* ---- one notification of the store's subscribers, callback by callback
    nt              \* the array forEach walks, its position, what the callbacks did

chunkVars  == <<ckText, ckSize, ckChunks, ckPc>>
storeVars  == <<documents, listeners, calls, notified>>
searchVars == <<srPc, srEmbedOk, srQueryEmbedding, srTopK, srResult, srOrder, srEarlier>>
chatVars   == <<chat, chLog, chOut>>
vars == <<chunkVars, storeVars, searchVars, chatVars, hf, turn, web, nt>>

\* What an action of one part leaves alone in the other parts.
ChunkFrame  == UNCHANGED <<storeVars, searchVars, chatVars, hf, turn, web, nt>>
StoreFrame  == UNCHANGED <<chunkVars, searchVars, chatVars, hf, turn, web, nt>>
SearchFrame == UNCHANGED <<chunkVars, storeVars, chatVars, hf, turn, web, nt>>
ChatFrame   == UNCHANGED <<chunkVars, storeVars, searchVars, hf, turn, web, nt>>
HfFrame     == UNCHANGED <<chunkVars, storeVars, searchVars, chatVars, turn, web, nt>>
TurnFrame   == UNCHANGED <<chunkVars, storeVars, searchVars, web, nt>>
WebFrame    == UNCHANGED <<chunkVars, storeVars, searchVars, chatVars, hf, turn, nt>>
NotifyFrame == UNCHANGED <<chunkVars, searchVars, chatVars, hf, turn, web>>

(***************************************************************************)
(* Bounds of the model.                                                    *)
(***************************************************************************)
MaxTextLen   == 4    \* longest text drawn for chunkText
MaxChunkSize == 3    \* largest chunk size drawn for chunkText
MaxListeners == 2    \* longest listener list
MaxCorpus    == 3    \* largest corpus drawn for similaritySearch
MaxTopK      == 3    \* largest topK drawn for similaritySearch
MaxPolls     == 2    \* polls of a video operation that may answer "not done"
MaxSearches  == 2    \* similaritySearch calls made one after the other
MaxRounds    == 2    \* notifications of the subscribers, one after the other

Min(a, b) == IF a < b THEN a ELSE b

\* The in-order concatenation of a sequence of strings.
RECURSIVE Concat(_)
Concat(ss) == IF ss = <<>> THEN "" ELSE Head(ss) \o Concat(Tail(ss))

\* All sequences over S of length at most n.
SeqsUpTo(S, n) == UNION { [1..k -> S] : k \in 0..n }

\* All strings over the characters of Alphabet of length at most n.
Alphabet == {"a", "b"}
RECURSIVE StringsUpTo(_)
StringsUpTo(n) ==
    IF n = 0 THEN {""}
    ELSE LET shorter == StringsUpTo(n - 1)
         IN shorter \cup { s \o c : s \in shorter, c \in Alphabet }

(***************************************************************************)
(* String.prototype.slice(b, e) for 0 <= b <= e, on a 0-based string.      *)
(***************************************************************************)
Slice(text, b, e) == SubSeq(text, b + 1, Min(e, Len(text)))

(***************************************************************************)
(* VectorStore.chunkText: for (i = 0; i < text.length; i += chunkSize)     *)
(*                            chunks.push(text.slice(i, i + chunkSize))    *)
(***************************************************************************)
RECURSIVE chunkFrom(_, _, _)
chunkFrom(text, chunkSize, i) ==
    IF i < Len(text)
    THEN <<Slice(text, i, i + chunkSize)>> \o chunkFrom(text, chunkSize, i + chunkSize)
    ELSE <<>>

\* A chunker whose slices overlap by reading one character too many.
chunkTextOverlap(text, chunkSize) ==
    LET RECURSIVE from(_)
        from(i) == IF i < Len(text)
                   THEN <<Slice(text, i, i + chunkSize + 1)>> \o from(i + chunkSize)
                   ELSE <<>>
    IN from(0)

chunkText(text, chunkSize) == chunkFrom(text, chunkSize, 0)

(***************************************************************************)
(* chunkText on drawn inputs: every text over Alphabet up to MaxTextLen    *)
(* and every chunk size 1..MaxChunkSize.                                   *)
(***************************************************************************)
ChunkInit ==
    /\ ckText \in StringsUpTo(MaxTextLen)
    /\ ckSize \in 1..MaxChunkSize
    /\ ckChunks = <<>>
    /\ ckPc = "start"

ChunkIdle ==
    /\ ckText = ""
    /\ ckSize = 1
    /\ ckChunks = <<>>
    /\ ckPc = "unused"

ChunkCall ==
    /\ ckPc = "start"
    /\ ckChunks' = chunkText(ckText, ckSize)
    /\ ckPc' = "done"
    /\ UNCHANGED <<ckText, ckSize>>
    /\ ChunkFrame

(***************************************************************************)
(* Errors thrown by a backend call: {status, code, message}; 0 stands for  *)
(* an absent status or code.                                               *)
(***************************************************************************)
Err(status, code, message) == [status |-> status, code |-> code, message |-> message]
NoError == Err(0, 0, "")

\* String.prototype.includes
Includes(s, sub) ==
    \E i \in 1..(Len(s) - Len(sub) + 1) : SubSeq(s, i, i + Len(sub) - 1) = sub

E500      == Err(500, 0, "got status: 500")
ECode500  == Err(0, 500, "backend failure")
EInternal == Err(0, 0, "Internal error encountered.")
E503      == Err(503, 0, "The model is overloaded.")
ENetwork  == Err(0, 0, "Failed to fetch")

(***************************************************************************)
(* withRetry(fn, retries = 3, delay = 1000).  outs[k] is what the k-th     *)
(* invocation of fn does: [ok, value, error].  The result records the      *)
(* number of invocations made and the waits slept between them.            *)
(***************************************************************************)
DefaultRetries == 3
DefaultDelay   == 1000

isInternal(error) ==
    \/ error.status = 500
    \/ error.code = 500
    \/ Includes(error.message, "Internal error")

\* A withRetry whose wait stays the same from one retry to the next.
RECURSIVE withRetryFromFixedDelay(_, _, _, _, _)
withRetryFromFixedDelay(outs, k, retries, delay, waits) ==
    LET out == outs[k] IN
    IF out.ok
    THEN [ok |-> TRUE, value |-> out.value, error |-> NoError,
          calls |-> k, waits |-> waits]
    ELSE IF isInternal(out.error) /\ retries > 0
         THEN withRetryFromFixedDelay(outs, k + 1, retries - 1, delay, Append(waits, delay))
         ELSE [ok |-> FALSE, value |-> out.value, error |-> out.error,
               calls |-> k, waits |-> waits]

RECURSIVE withRetryFrom(_, _, _, _, _)
withRetryFrom(outs, k, retries, delay, waits) ==
    LET out == outs[k] IN
    IF out.ok
    THEN [ok |-> TRUE, value |-> out.value, error |-> NoError,
          calls |-> k, waits |-> waits]
    ELSE IF isInternal(out.error) /\ retries > 0
         THEN withRetryFrom(outs, k + 1, retries - 1, delay * 2, Append(waits, delay))
         ELSE [ok |-> FALSE, value |-> out.value, error |-> out.error,
               calls |-> k, waits |-> waits]

\* A withRetry that gives up at the first failure.
withRetryNever(outs, retries, delay) == withRetryFrom(outs, 1, 0, delay, <<>>)

withRetry(outs, retries, delay) == withRetryFrom(outs, 1, retries, delay, <<>>)

(***************************************************************************)
(* getEmbedding(text).  apiOuts[k] is the k-th embedContent response:      *)
(* [ok, hasValues, values, error].  The callback returns                   *)
(* response.embeddings?.[0]?.values || []; any error left after the        *)
(* retries is caught and [] returned.                                      *)
(***************************************************************************)
ApiOk(values)  == [ok |-> TRUE, hasValues |-> TRUE, values |-> values, error |-> NoError]
ApiNoValues    == [ok |-> TRUE, hasValues |-> FALSE, values |-> <<>>, error |-> NoError]
ApiFail(error) == [ok |-> FALSE, hasValues |-> FALSE, values |-> <<>>, error |-> error]

embedAttempt(apiOut) ==
    [ok    |-> apiOut.ok,
     value |-> IF apiOut.ok /\ apiOut.hasValues THEN apiOut.values ELSE <<>>,
     error |-> apiOut.error]

\* A getEmbedding that lets the error escape instead of returning [].
getEmbeddingResultThrows(apiOuts) ==
    LET r == withRetry([k \in DOMAIN apiOuts |-> embedAttempt(apiOuts[k])],
                       DefaultRetries, DefaultDelay)
    IN [threw |-> ~r.ok, embedding |-> r.value]

getEmbeddingResult(apiOuts) ==
    LET r == withRetry([k \in DOMAIN apiOuts |-> embedAttempt(apiOuts[k])],
                       DefaultRetries, DefaultDelay)
    IN [threw |-> FALSE, embedding |-> IF r.ok THEN r.value ELSE <<>>]

getEmbedding(apiOuts) == getEmbeddingResult(apiOuts).embedding

\* Whether the embedding backend ends up answering with a non-empty vector:
\* an answer with values, preceded by nothing but transient failures, within
\* the attempts withRetry allows.
EmbedSucceeds(apiOuts) ==
    \E k \in DOMAIN apiOuts :
        /\ k <= DefaultRetries + 1
        /\ apiOuts[k].ok /\ apiOuts[k].hasValues /\ Len(apiOuts[k].values) > 0
        /\ \A j \in 1..(k - 1) : ~apiOuts[j].ok /\ isInternal(apiOuts[j].error)

(***************************************************************************)
(* What the embedding backend may do over the attempts of one              *)
(* getEmbedding call, for the vectors in vecs.                             *)
(***************************************************************************)
EmbedScripts(vecs) ==
    { <<ApiOk(v)>> : v \in vecs }
    \cup { <<ApiFail(E500), ApiOk(v)>> : v \in vecs }
    \cup { <<ApiFail(EInternal), ApiFail(ECode500), ApiFail(E500), ApiOk(v)>> : v \in vecs }
    \cup { <<ApiNoValues>>,
           <<ApiFail(ENetwork)>>,
           <<ApiFail(E503)>>,
           <<ApiFail(E500), ApiFail(ENetwork)>>,
           <<ApiFail(E500), ApiFail(E500), ApiFail(E500), ApiFail(E500)>> }

(***************************************************************************)
(* VectorStore.  A VectorDocument is [id, text, source, category,          *)
(* embedding]; its timestamp (Date.now()) is read by no operation and is   *)
(* left out.  An id is Math.random().toString(36).substring(7): any of     *)
(* Ids, with nothing keeping two draws apart.                              *)
(***************************************************************************)
ChunkSize == 500

Ids        == {"k3x9", "q7m2"}
Listeners  == {"L1", "L2"}
Sources    == {"Translation Result"}
Categories == {"A", "B"}
CallIds    == {1, 2}

\* The text "abcdefgabcdefg..." of length n.
Block == "abcdefg"
RECURSIVE Repeat(_, _)
Repeat(s, n) == IF n = 0 THEN "" ELSE s \o Repeat(s, n - 1)
TextOfLen(n) == SubSeq(Repeat(Block, (n \div Len(Block)) + 1), 1, n)

\* Documents of 0, 2 and 3 fragments (1200 characters: 500, 500, 200).
StoreTexts == { TextOfLen(0), TextOfLen(700), TextOfLen(1200) }

\* The vector the embedding model answers for a text, when it answers.
CharCode(c) == CHOOSE n \in 1..Len(Block) : SubSeq(Block, n, n) = c
BackendVector(text) == <<Len(text) \div 100, CharCode(SubSeq(text, 1, 1))>>

Range(f) == { f[x] : x \in DOMAIN f }

\* The distinct elements in order of last occurrence.
RECURSIVE DedupeKeepLast(_)
DedupeKeepLast(xs) ==
    IF xs = <<>> THEN <<>>
    ELSE LET rest == DedupeKeepLast(Tail(xs))
         IN IF Head(xs) \in Range(rest) THEN rest ELSE <<Head(xs)>> \o rest

\* [...new Set(xs)]: the distinct elements in order of first occurrence.
RECURSIVE Dedupe(_)
Dedupe(xs) ==
    IF xs = <<>> THEN <<>>
    ELSE LET init == Dedupe(SubSeq(xs, 1, Len(xs) - 1))
             last == xs[Len(xs)]
         IN IF last \in Range(init) THEN init ELSE Append(init, last)

\* VectorStore.getStats on the corpus docs.
getStats(docs) ==
    [totalDocuments |-> Len(docs),
     categories     |-> Dedupe([k \in DOMAIN docs |-> docs[k].category])]

\* A notify that runs the callbacks last registered first.
notifyReversed(ls, docs, c) ==
    [k \in DOMAIN ls |->
        [listener |-> ls[Len(ls) + 1 - k], call |-> c, stats |-> getStats(docs)]]

\* VectorStore.notify for the call c: listeners.forEach(l => l()), each
\* callback being KnowledgeBase's setStats(vectorStore.getStats()).
notify(ls, docs, c) ==
    [k \in DOMAIN ls |-> [listener |-> ls[k], call |-> c, stats |-> getStats(docs)]]

IdleCall ==
    [pc |-> "idle", text |-> "", source |-> "", category |-> "", chunks |-> <<>>,
     i |-> 0, successCount |-> 0, fragOk |-> <<>>, appended |-> <<>>,
     before |-> 0, result |-> -1]

StoreInit ==
    /\ documents = <<>>
    /\ listeners = <<>>
    /\ calls = [c \in CallIds |-> IdleCall]
    /\ notified = <<>>

\* subscribe(listener): listeners.push(listener)
Subscribe(l) ==
    /\ Len(listeners) < MaxListeners
    /\ listeners' = Append(listeners, l)
    /\ UNCHANGED <<documents, calls, notified>>
    /\ StoreFrame

\* the function subscribe returned: listeners = listeners.filter(x => x !== l)
Unsubscribe(l) ==
    /\ l \in Range(listeners)
    /\ listeners' = SelectSeq(listeners, LAMBDA x : x # l)
    /\ UNCHANGED <<documents, calls, notified>>
    /\ StoreFrame

\* A return that reports the growth of the corpus since the call began.
addDocumentReturnGrowth(cr, docs, c) ==
    /\ calls' = [calls EXCEPT ![c] = [cr EXCEPT !.pc = "done",
                                                !.result = Len(docs) - cr.before]]
    /\ notified' = IF cr.successCount > 0
                   THEN notified \o notify(listeners, docs, c)
                   ELSE notified

\* The end of addDocument once the loop is over, for the call record cr.
addDocumentReturn(cr, docs, c) ==
    /\ calls' = [calls EXCEPT ![c] = [cr EXCEPT !.pc = "done", !.result = cr.successCount]]
    /\ notified' = IF cr.successCount > 0
                   THEN notified \o notify(listeners, docs, c)
                   ELSE notified

\* addDocument(text, source, category) up to its first await.
AddDocumentCall(c, text, source, category) ==
    /\ calls[c].pc = "idle"
    /\ LET cr == [IdleCall EXCEPT !.text = text, !.source = source,
                                  !.category = category,
                                  !.chunks = chunkText(text, ChunkSize),
                                  !.before = Len(documents)]
       IN IF cr.chunks = <<>>
          THEN addDocumentReturn(cr, documents, c)
          ELSE /\ calls' = [calls EXCEPT ![c] = [cr EXCEPT !.pc = "await", !.i = 1]]
               /\ notified' = notified
    /\ UNCHANGED <<documents, listeners>>
    /\ StoreFrame

\* An addDocument that gives up at the first fragment that fails.
addDocumentStepAbort(c, chunk, r, id, succeeded) ==
    LET cr == calls[c]
        ok == ~r.threw /\ Len(r.embedding) > 0
        doc == [id |-> id, text |-> chunk, source |-> cr.source,
                category |-> cr.category, embedding |-> r.embedding]
        docs == IF ok THEN Append(documents, doc) ELSE documents
        cr1 == [cr EXCEPT !.successCount = IF ok THEN @ + 1 ELSE @,
                          !.fragOk = Append(@, succeeded),
                          !.appended = IF ok THEN Append(@, Len(docs)) ELSE @]
    IN /\ documents' = docs
       /\ IF ok /\ cr.i < Len(cr.chunks)
          THEN /\ calls' = [calls EXCEPT ![c] = [cr1 EXCEPT !.i = @ + 1]]
               /\ notified' = notified
          ELSE addDocumentReturn(cr1, docs, c)

\* An addDocument that, after a fragment without a vector, passes over the
\* fragment that follows it.
addDocumentStepPassOver(c, chunk, r, id, succeeded) ==
    LET cr == calls[c]
        ok == ~r.threw /\ Len(r.embedding) > 0
        doc == [id |-> id, text |-> chunk, source |-> cr.source,
                category |-> cr.category, embedding |-> r.embedding]
        docs == IF ok THEN Append(documents, doc) ELSE documents
        cr1 == [cr EXCEPT !.successCount = IF ok THEN @ + 1 ELSE @,
                          !.fragOk = Append(@, succeeded),
                          !.appended = IF ok THEN Append(@, Len(docs)) ELSE @]
    IN /\ documents' = docs
       /\ IF cr.i + 1 < Len(cr.chunks)
          THEN /\ calls' = [calls EXCEPT ![c] = [cr1 EXCEPT !.i = IF ok THEN @ + 1 ELSE @ + 2]]
               /\ notified' = notified
          ELSE IF cr.i < Len(cr.chunks)
          THEN /\ calls' = [calls EXCEPT ![c] = [cr1 EXCEPT !.i = @ + 1]]
               /\ notified' = notified
          ELSE addDocumentReturn(cr1, docs, c)

\* An addDocument that puts a new entry at the front of the corpus.
addDocumentStepUnshift(c, chunk, r, id, succeeded) ==
    LET cr == calls[c]
        ok == ~r.threw /\ Len(r.embedding) > 0
        doc == [id |-> id, text |-> chunk, source |-> cr.source,
                category |-> cr.category, embedding |-> r.embedding]
        docs == IF ok THEN <<doc>> \o documents ELSE documents
        cr1 == [cr EXCEPT !.successCount = IF ok THEN @ + 1 ELSE @,
                          !.fragOk = Append(@, succeeded),
                          !.appended = IF ok THEN Append(@, 1) ELSE @]
    IN /\ documents' = docs
       /\ IF cr.i < Len(cr.chunks)
          THEN /\ calls' = [calls EXCEPT ![c] = [cr1 EXCEPT !.i = @ + 1]]
               /\ notified' = notified
          ELSE addDocumentReturn(cr1, docs, c)

\* An addDocument whose callbacks run before the last fragment is appended.
addDocumentStepNotifyBefore(c, chunk, r, id, succeeded) ==
    LET cr == calls[c]
        ok == ~r.threw /\ Len(r.embedding) > 0
        doc == [id |-> id, text |-> chunk, source |-> cr.source,
                category |-> cr.category, embedding |-> r.embedding]
        docs == IF ok THEN Append(documents, doc) ELSE documents
        cr1 == [cr EXCEPT !.successCount = IF ok THEN @ + 1 ELSE @,
                          !.fragOk = Append(@, succeeded),
                          !.appended = IF ok THEN Append(@, Len(docs)) ELSE @]
    IN /\ documents' = docs
       /\ IF cr.i < Len(cr.chunks)
          THEN /\ calls' = [calls EXCEPT ![c] = [cr1 EXCEPT !.i = @ + 1]]
               /\ notified' = notified
          ELSE addDocumentReturn(cr1, documents, c)

\* One turn of addDocument's loop after getEmbedding(chunk) resolved with r,
\* then either the next getEmbedding or the end of the call.
addDocumentStep(c, chunk, r, id, succeeded) ==
    LET cr == calls[c]
        ok == ~r.threw /\ Len(r.embedding) > 0
        doc == [id |-> id, text |-> chunk, source |-> cr.source,
                category |-> cr.category, embedding |-> r.embedding]
        docs == IF ok THEN Append(documents, doc) ELSE documents
        cr1 == [cr EXCEPT !.successCount = IF ok THEN @ + 1 ELSE @,
                          !.fragOk = Append(@, succeeded),
                          !.appended = IF ok THEN Append(@, Len(docs)) ELSE @]
    IN /\ documents' = docs
       /\ IF cr.i < Len(cr.chunks)
          THEN /\ calls' = [calls EXCEPT ![c] = [cr1 EXCEPT !.i = @ + 1]]
               /\ notified' = notified
          ELSE addDocumentReturn(cr1, docs, c)

\* The pending getEmbedding of call c resolves; the id of a new entry is
\* drawn from ids.
EmbedResolvedWith(c, ids) ==
    /\ calls[c].pc = "await"
    /\ LET chunk == calls[c].chunks[calls[c].i] IN
       \E apiOuts \in EmbedScripts({BackendVector(chunk)}), id \in ids :
           addDocumentStep(c, chunk, getEmbeddingResult(apiOuts), id,
                           EmbedSucceeds(apiOuts))
    /\ UNCHANGED listeners
    /\ StoreFrame

EmbedResolved(c) == EmbedResolvedWith(c, Ids)

AddNext ==
    \/ \E c \in CallIds, text \in StoreTexts, source \in Sources, category \in Categories :
           AddDocumentCall(c, text, source, category)
    \/ \E c \in CallIds : EmbedResolved(c)

(***************************************************************************)
(* VectorStore.cosineSimilarity(vecA, vecB), a loop over the indices of    *)
(* vecA.  The quotient dotProduct / (sqrt(magA) * sqrt(magB)) is kept as   *)
(* its exact parts; it is NaN when vecB is shorter than vecA (vecB[i] is   *)
(* undefined) and when the divisor is 0 (the dot product is then 0 too).   *)
(* The vectors drawn differ in length by powers of two only, so equal      *)
(* quotients are equal as doubles as well.                                 *)
(***************************************************************************)
RECURSIVE cosineLoop(_, _, _, _)
cosineLoop(vecA, vecB, i, acc) ==
    IF i > Len(vecA) THEN acc
    ELSE cosineLoop(vecA, vecB, i + 1,
            IF i > Len(vecB)
            THEN [acc EXCEPT !.nan = TRUE, !.magA = @ + vecA[i] * vecA[i]]
            ELSE [acc EXCEPT !.dot  = @ + vecA[i] * vecB[i],
                             !.magA = @ + vecA[i] * vecA[i],
                             !.magB = @ + vecB[i] * vecB[i]])

cosineSimilarity(vecA, vecB) ==
    LET acc == cosineLoop(vecA, vecB, 1, [nan |-> FALSE, dot |-> 0, magA |-> 0, magB |-> 0])
    IN IF acc.nan \/ acc.magA * acc.magB = 0
       THEN [nan |-> TRUE, dot |-> 0, den |-> 0]
       ELSE [nan |-> FALSE, dot |-> acc.dot, den |-> acc.magA * acc.magB]

\* The order of two scores dot / sqrt(den) that are numbers.
SignedSquare(x) == IF x < 0 THEN -(x * x) ELSE x * x
ScoreLess(s, t) ==
    ~s.nan /\ ~t.nan /\ SignedSquare(s.dot) * t.den < SignedSquare(t.dot) * s.den
ScoreEqual(s, t) ==
    ~s.nan /\ ~t.nan /\ SignedSquare(s.dot) * t.den = SignedSquare(t.dot) * s.den

\* The comparator (a, b) => b.score - a.score as sort reads it: its sign,
\* a NaN difference counting as +0.
compareScores(a, b) ==
    IF a.nan \/ b.nan THEN 0
    ELSE IF ScoreLess(b, a) THEN -1
    ELSE IF ScoreLess(a, b) THEN 1
    ELSE 0

(***************************************************************************)
(* Array.prototype.sort on the scores xs, as the orders of its indices it  *)
(* may produce.  With a consistent comparator the sort is stable and the   *)
(* order unique; with an inconsistent one the order is                     *)
(* implementation-defined: any permutation.                                *)
(***************************************************************************)
Orders(n) == { p \in [1..n -> 1..n] : \A i, j \in 1..n : i # j => p[i] # p[j] }

ConsistentComparator(xs) ==
    \A a, b, c \in DOMAIN xs :
        /\ compareScores(xs[a], xs[b]) = 0 /\ compareScores(xs[b], xs[c]) = 0
               => compareScores(xs[a], xs[c]) = 0
        /\ compareScores(xs[a], xs[b]) < 0 /\ compareScores(xs[b], xs[c]) < 0
               => compareScores(xs[a], xs[c]) < 0
        /\ compareScores(xs[a], xs[b]) > 0 /\ compareScores(xs[b], xs[c]) > 0
               => compareScores(xs[a], xs[c]) > 0

\* A sort that is not stable: entries that compare equal come in any order.
UnstableOrder(xs, p) ==
    \A i, j \in DOMAIN xs :
        i < j => compareScores(xs[p[i]], xs[p[j]]) <= 0

StableOrder(xs, p) ==
    \A i, j \in DOMAIN xs :
        i < j => \/ compareScores(xs[p[i]], xs[p[j]]) < 0
                 \/ compareScores(xs[p[i]], xs[p[j]]) = 0 /\ p[i] < p[j]

sortOutcomes(xs) ==
    IF ConsistentComparator(xs)
    THEN { p \in Orders(Len(xs)) : StableOrder(xs, p) }
    ELSE Orders(Len(xs))

(***************************************************************************)
(* similaritySearch(query, topK = 3): one call, from its await of          *)
(* getEmbedding(query) to its result, and the calls finished before it.    *)
(* An order that sort leaves implementation-defined is the choice of the   *)
(* engine the program runs on: the engine's sort is one function, so an    *)
(* array of scores it ordered before comes out in the same order again     *)
(* (as far as the earlier call showed the order: its first topK places).   *)
(* srOrder keeps the corpus positions                                      *)
(* of the returned documents, srEmbedOk whether the embedding backend      *)
(* answered the query with a vector.                                       *)
(***************************************************************************)
DefaultTopK == 3

SearchVecs == { <<1, 0>>, <<0, 1>>, <<1, 1>>, <<2, 0>>, <<0, 0>> }

\* The k-th entry of a drawn corpus, with the embedding v.
EntryAt(k, v) ==
    [id |-> SubSeq("pqrstuvw", k, k), text |-> SubSeq(Block, 1, k),
     source |-> "Translation Result", category |-> "A", embedding |-> v]

SearchCorpora ==
    { [k \in DOMAIN vs |-> EntryAt(k, vs[k])] : vs \in SeqsUpTo(SearchVecs, MaxCorpus) }

scoreAll(queryEmbedding, docs) ==
    [k \in DOMAIN docs |-> cosineSimilarity(queryEmbedding, docs[k].embedding)]

SearchInit ==
    /\ documents \in SearchCorpora
    /\ listeners = <<>>
    /\ calls = [c \in CallIds |-> IdleCall]
    /\ notified = <<>>
    /\ srPc = "idle"
    /\ srEmbedOk = FALSE
    /\ srQueryEmbedding = <<>>
    /\ srTopK = DefaultTopK
    /\ srResult = <<>>
    /\ srOrder = <<>>
    /\ srEarlier = <<>>

SearchIdle ==
    /\ srPc = "unused"
    /\ srEmbedOk = FALSE
    /\ srQueryEmbedding = <<>>
    /\ srTopK = DefaultTopK
    /\ srResult = <<>>
    /\ srOrder = <<>>
    /\ srEarlier = <<>>

\* similaritySearch(query, topK) up to its await.
SearchCall(topK) ==
    /\ srPc = "idle"
    /\ srPc' = "await"
    /\ srTopK' = topK
    /\ UNCHANGED <<srEmbedOk, srQueryEmbedding, srResult, srOrder, srEarlier>>
    /\ SearchFrame

\* A similaritySearch that sorts the corpus itself, in place, instead of the
\* scored copy of it.
SearchResolvedInPlace(vecs) ==
    /\ srPc = "await"
    /\ \E apiOuts \in EmbedScripts(vecs) :
         LET r == getEmbeddingResult(apiOuts) IN
         /\ srEmbedOk' = EmbedSucceeds(apiOuts)
         /\ IF r.threw
            THEN /\ srPc' = "threw"
                 /\ UNCHANGED <<srQueryEmbedding, srResult, srOrder, srEarlier, documents>>
            ELSE /\ srPc' = "done"
                 /\ srQueryEmbedding' = r.embedding
                 /\ LET scores == IF Len(r.embedding) = 0 THEN <<>>
                                  ELSE scoreAll(r.embedding, documents)
                    IN \E p \in sortOutcomes(scores) :
                         /\ srOrder' = SubSeq(p, 1, Min(srTopK, Len(p)))
                         /\ srResult' = [k \in DOMAIN srOrder' |-> documents[srOrder'[k]]]
                         /\ documents' = IF Len(p) = Len(documents)
                                         THEN [k \in DOMAIN documents |-> documents[p[k]]]
                                         ELSE documents
                         /\ srEarlier' = Append(srEarlier,
                                [queryEmbedding |-> r.embedding, topK |-> srTopK,
                                 size |-> Len(documents), order |-> srOrder',
                                 result |-> srResult'])
    /\ UNCHANGED <<srTopK, listeners, calls, notified>>
    /\ UNCHANGED <<chunkVars, chatVars, hf, turn, web, nt>>

\* getEmbedding(query) resolves, with one of vecs when the backend answers,
\* and similaritySearch runs to its end.
SearchResolvedWith(vecs) ==
    /\ srPc = "await"
    /\ \E apiOuts \in EmbedScripts(vecs) :
         LET r == getEmbeddingResult(apiOuts) IN
         /\ srEmbedOk' = EmbedSucceeds(apiOuts)
         /\ IF r.threw
            THEN /\ srPc' = "threw"
                 /\ UNCHANGED <<srQueryEmbedding, srResult, srOrder, srEarlier>>
            ELSE /\ srPc' = "done"
                 /\ srQueryEmbedding' = r.embedding
                 /\ LET scores == IF Len(r.embedding) = 0 THEN <<>>
                                  ELSE scoreAll(r.embedding, documents)
                    IN \E p \in sortOutcomes(scores) :
                         /\ \A n \in DOMAIN srEarlier :
                                ( /\ srEarlier[n].size = Len(documents)
                                  /\ scoreAll(srEarlier[n].queryEmbedding, documents) = scores
                                  /\ ~ConsistentComparator(scores) )
                                => \A k \in DOMAIN srEarlier[n].order :
                                       p[k] = srEarlier[n].order[k]
                         /\ srOrder' = SubSeq(p, 1, Min(srTopK, Len(p)))
                         /\ srResult' = [k \in DOMAIN srOrder' |-> documents[srOrder'[k]]]
                         /\ srEarlier' = Append(srEarlier,
                                [queryEmbedding |-> r.embedding, topK |-> srTopK,
                                 size |-> Len(documents), order |-> srOrder',
                                 result |-> srResult'])
    /\ UNCHANGED srTopK
    /\ SearchFrame

SearchResolved == SearchResolvedWith(SearchVecs)

\* The caller is back from a finished similaritySearch and may call again.
SearchAgain ==
    /\ srPc = "done"
    /\ Len(srEarlier) < MaxSearches
    /\ srPc' = "idle"
    /\ UNCHANGED <<srEmbedOk, srQueryEmbedding, srTopK, srResult, srOrder, srEarlier>>
    /\ SearchFrame

SearchNext ==
    \/ \E topK \in 0..MaxTopK : SearchCall(topK)
    \/ SearchResolved

(***************************************************************************)
(* String helpers of chatHybrid's intent tests.                            *)
(***************************************************************************)
UpperCase == "ABCDEFGHIJKLMNOPQRSTUVWXYZ"
LowerCase == "abcdefghijklmnopqrstuvwxyz"
Digits    == "0123456789"

CharAt(s, i) == SubSeq(s, i, i)

\* String.prototype.toLowerCase on the ASCII letters.
LowerChar(c) ==
    IF \E k \in 1..Len(UpperCase) : CharAt(UpperCase, k) = c
    THEN CharAt(LowerCase, CHOOSE k \in 1..Len(UpperCase) : CharAt(UpperCase, k) = c)
    ELSE c

RECURSIVE toLowerCase(_)
toLowerCase(s) ==
    IF s = "" THEN "" ELSE LowerChar(CharAt(s, 1)) \o toLowerCase(SubSeq(s, 2, Len(s)))

\* \w of a regular expression.
IsWordChar(c) == Includes(LowerCase \o UpperCase \o Digits \o "_", c)

\* \b(w)\b matched at position i of s, for a word w of word characters.
WordAt(s, i, w) ==
    LET e == i + Len(w) - 1 IN
    /\ i >= 1 /\ e <= Len(s)
    /\ SubSeq(s, i, e) = w
    /\ (i = 1 \/ ~IsWordChar(CharAt(s, i - 1)))
    /\ (e = Len(s) \/ ~IsWordChar(CharAt(s, e + 1)))

\* /\b(w1|w2|...)\b/ matches somewhere in s.
MatchesWord(s, words) ==
    \E w \in words, i \in 1..Len(s) : WordAt(s, i, w)

\* /\b(v1|v2|...)\b.*\b(n1|n2|...)\b/ matches somewhere in s; the dot
\* matches no line terminator.
MatchesWordThenWord(s, firsts, seconds) ==
    \E v \in firsts, n \in seconds, i \in 1..Len(s), j \in 1..Len(s) :
        /\ WordAt(s, i, v)
        /\ j >= i + Len(v)
        /\ WordAt(s, j, n)
        /\ ~Includes(SubSeq(s, i + Len(v), j - 1), "\n")

(***************************************************************************)
(* chatHybrid's intent tests.                                              *)
(***************************************************************************)
\* query.toLowerCase().includes("map") || ... "location" ... "path" ... "where is"
isMapIntent(query) ==
    \/ Includes(toLowerCase(query), "map")
    \/ Includes(toLowerCase(query), "location")
    \/ Includes(toLowerCase(query), "path")
    \/ Includes(toLowerCase(query), "where is")

\* A video test that forgets the word boundaries.
isVideoRequestNoBoundary(query) ==
    \E w \in {"video", "animate", "movie", "motion"} : Includes(toLowerCase(query), w)

\* query.toLowerCase().match(/\b(video|animate|movie|motion)\b/)
isVideoRequest(query) ==
    MatchesWord(toLowerCase(query), {"video", "animate", "movie", "motion"})

\* query.toLowerCase().match(/\b(generate|create|draw|make)\b.*\b(image|picture|photo|art)\b/)
isImageRequest(query) ==
    MatchesWordThenWord(toLowerCase(query),
        {"generate", "create", "draw", "make"}, {"image", "picture", "photo", "art"})

(***************************************************************************)
(* geminiService constants and prompts.                                    *)
(***************************************************************************)
MODEL_NAME  == "gemini-3-flash-preview"
MAPS_MODEL  == "gemini-2.5-flash"
IMAGE_MODEL == "gemini-3-pro-image-preview"
VEO_MODEL   == "veo-3.1-fast-generate-preview"
API_KEY     == "API_KEY"

GENERAL        == "General Assistant"
RESEARCHER     == "Academic Researcher"
CREATIVE       == "Creative Writer"
ANALYST        == "Data Analyst"
VISUAL_CREATOR == "Visual Tool User"
CUSTOM         == "Custom Identity"
ChatPersona == {GENERAL, RESEARCHER, CREATIVE, ANALYST, VISUAL_CREATOR, CUSTOM}

BASE_SYSTEM_INSTRUCTION ==
    "You are InferMate AI. \nSafety Rules: Do not generate hate speech, harmful content, or biased information.\nObjective: Be helpful, accurate, and concise."

PERSONA_PROMPTS ==
    [p \in ChatPersona |->
        CASE p = GENERAL -> BASE_SYSTEM_INSTRUCTION \o " You are a helpful general assistant."
          [] p = RESEARCHER -> BASE_SYSTEM_INSTRUCTION \o " You are an academic researcher. Cite sources, be objective, and use formal language."
          [] p = CREATIVE -> BASE_SYSTEM_INSTRUCTION \o " You are a creative writer. Be expressive, imaginative, and engaging."
          [] p = ANALYST -> BASE_SYSTEM_INSTRUCTION \o " You are a data analyst. Focus on facts, patterns, and structured data outputs."
          [] p = VISUAL_CREATOR -> BASE_SYSTEM_INSTRUCTION \o " You are a Visual Tool User. \n  If the user asks for a video or animation and provides NO image, I will automatically:\n  1. Enhance their prompt with visual details.\n  2. Generate a reference image.\n  3. Create a video from that image.\n  \n  If they want just an image, I use the generate_image tool.\n  If they upload an image, I guide them to animate it."
          [] p = CUSTOM -> BASE_SYSTEM_INSTRUCTION \o " You are a custom persona."]

CustomHeader     == "\n\n[CUSTOM PERSONA INSTRUCTION]\n"
MapsInstruction  == "\nUse Google Maps to verify locations. For historical queries (like Ramayana), first find the modern equivalent of the place name, then use Google Maps to show the location."
RagHeader        == "\n\n[RAG CONTEXT]\n"
DocumentMarker   == "\n\n[DOCUMENT CONTEXT]\nAnalyze the uploaded document."
LinksHeader      == "\n\nRefer to: "

\* The tool configurations: the generate_image function declaration, the
\* mapping tool, the web-search grounding tool.
ImageTool  == "functionDeclarations:generate_image"
MapsTool   == "googleMaps"
SearchTool == "googleSearch"

PAYMENT_REQUIRED == "PAYMENT_REQUIRED"
NeutralFailure   == "Error connecting to AI. Please try again."
PipelineFailure  == "Error during video generation pipeline. Please check your API limits or try again."
BaseImageFailure == "I tried to generate a base image for your video but failed. Please try a different prompt."
ImageFailedNotice == "\n[Image Generation Failed: Please try again]"
GeneratingNote   == "\n\n(Generating image for: \"a cat\" at 1K)..."
VideoGenerated(enhancedPrompt) ==
    "**Video Generated**\n\n**Enhanced Prompt:** " \o enhancedPrompt
        \o "\n\n(I first generated a reference image using " \o IMAGE_MODEL
        \o ", then animated it with " \o VEO_MODEL \o ".)"

\* Errors of the generative backend.
E403        == Err(403, 0, "Forbidden")
EPermission == Err(0, 0, "PERMISSION_DENIED: the caller does not have permission")
E404Message == Err(0, 0, "got status: 404 model is not available")
E404Status  == Err(404, 0, "model unavailable")
EHost       == Err(0, 0, "The key selection was dismissed.")
ChatErrors  == {E403, EPermission, E404Message, E404Status, E500, ENetwork}

\* Array.prototype.join
RECURSIVE Join(_, _)
Join(xs, sep) ==
    IF xs = <<>> THEN ""
    ELSE IF Len(xs) = 1 THEN xs[1]
    ELSE xs[1] \o sep \o Join(Tail(xs), sep)

\* String.prototype.trim on spaces and line feeds.
IsSpace(c) == c = " " \/ c = "\n"
RECURSIVE TrimStart(_)
TrimStart(s) ==
    IF s # "" /\ IsSpace(CharAt(s, 1)) THEN TrimStart(SubSeq(s, 2, Len(s))) ELSE s
RECURSIVE TrimEnd(_)
TrimEnd(s) ==
    IF s # "" /\ IsSpace(CharAt(s, Len(s))) THEN TrimEnd(SubSeq(s, 1, Len(s) - 1)) ELSE s
Trim(s) == TrimEnd(TrimStart(s))

(***************************************************************************)
(* chatHybrid, lines 531-538: the persona's system instruction.            *)
(***************************************************************************)
personaInstruction(persona, customPersonaInstruction) ==
    IF persona = CUSTOM /\ customPersonaInstruction # ""
    THEN BASE_SYSTEM_INSTRUCTION \o CustomHeader \o customPersonaInstruction
    ELSE PERSONA_PROMPTS[persona]

\* A selection that tests the image request before the map intent.
selectToolsImageFirst(query, persona, hasDocument, model, tools) ==
    IF ~hasDocument /\ persona # VISUAL_CREATOR /\ isImageRequest(query)
    THEN [selectedModel |-> model, tools |-> <<ImageTool>>, maps |-> FALSE]
    ELSE IF isMapIntent(query)
    THEN [selectedModel |-> MAPS_MODEL, tools |-> <<MapsTool>>, maps |-> TRUE]
    ELSE IF ~hasDocument /\ persona # VISUAL_CREATOR
    THEN [selectedModel |-> model, tools |-> <<SearchTool>>, maps |-> FALSE]
    ELSE [selectedModel |-> model, tools |-> tools, maps |-> FALSE]

\* A selection that enables web search whether or not a document is attached.
selectToolsIgnoringDocument(query, persona, hasDocument, model, tools) ==
    IF isMapIntent(query)
    THEN [selectedModel |-> MAPS_MODEL, tools |-> <<MapsTool>>, maps |-> TRUE]
    ELSE IF persona # VISUAL_CREATOR
    THEN [selectedModel |-> model,
          tools |-> IF isImageRequest(query) THEN <<ImageTool>> ELSE <<SearchTool>>,
          maps |-> FALSE]
    ELSE [selectedModel |-> model, tools |-> tools, maps |-> FALSE]

\* A selection that adds web search to the tools already chosen.
selectToolsSearchAlongside(query, persona, hasDocument, model, tools) ==
    IF isMapIntent(query)
    THEN [selectedModel |-> MAPS_MODEL, tools |-> <<MapsTool, SearchTool>>, maps |-> TRUE]
    ELSE IF ~hasDocument /\ persona # VISUAL_CREATOR
    THEN [selectedModel |-> model,
          tools |-> IF isImageRequest(query) THEN <<ImageTool, SearchTool>>
                    ELSE <<SearchTool>>,
          maps |-> FALSE]
    ELSE [selectedModel |-> model, tools |-> tools, maps |-> FALSE]

(***************************************************************************)
(* chatHybrid, lines 593-609: the model and the tools, from the model and  *)
(* tools set so far; maps tells that the maps instruction is appended.     *)
(***************************************************************************)
selectTools(query, persona, hasDocument, model, tools) ==
    IF isMapIntent(query)
    THEN [selectedModel |-> MAPS_MODEL, tools |-> <<MapsTool>>, maps |-> TRUE]
    ELSE IF ~hasDocument /\ persona # VISUAL_CREATOR
    THEN [selectedModel |-> model,
          tools |-> IF isImageRequest(query) THEN <<ImageTool>> ELSE <<SearchTool>>,
          maps |-> FALSE]
    ELSE [selectedModel |-> model, tools |-> tools, maps |-> FALSE]

\* A composition that puts the document marker before the RAG block.
composeInstructionDocumentFirst(instruction, maps, ragContext, hasDocument) ==
    instruction
        \o (IF maps THEN MapsInstruction ELSE "")
        \o (IF hasDocument THEN DocumentMarker ELSE "")
        \o (IF ragContext # "" THEN RagHeader \o ragContext ELSE "")

\* chatHybrid, lines 596 and 611-613: the system instruction sent.
composeInstruction(instruction, maps, ragContext, hasDocument) ==
    instruction
        \o (IF maps THEN MapsInstruction ELSE "")
        \o (IF ragContext # "" THEN RagHeader \o ragContext ELSE "")
        \o (IF hasDocument THEN DocumentMarker ELSE "")

\* chatHybrid, lines 616-623: the history sent, the document first.
buildHistory(chatHistory, document) ==
    IF document.present
    THEN << [role |-> "model", parts |-> <<"Document received.">>],
            [role |-> "user",
             parts |-> << IF document.isBinary
                          THEN "inlineData:" \o document.mimeType \o ":" \o document.content
                          ELSE "[DOCUMENT]\n" \o document.content,
                          "Context Document" >>] >> \o chatHistory
    ELSE chatHistory

\* A handler that never retries.
catchDecisionNoRetry(error, tools) ==
    IF error.status = 403 \/ Includes(error.message, "PERMISSION_DENIED")
    THEN "payment"
    ELSE IF error.message = PAYMENT_REQUIRED \/ Includes(error.message, "404")
    THEN "payment"
    ELSE "neutral"

(***************************************************************************)
(* chatHybrid, lines 689-712: what the catch block does with an error:     *)
(* retry without tools, throw PAYMENT_REQUIRED, or return the neutral      *)
(* message.                                                                *)
(***************************************************************************)
catchDecision(error, tools) ==
    IF error.status = 403 \/ Includes(error.message, "PERMISSION_DENIED")
    THEN IF Len(tools) > 0 THEN "retry" ELSE "payment"
    ELSE IF error.message = PAYMENT_REQUIRED \/ Includes(error.message, "404")
    THEN "payment"
    ELSE "neutral"

(***************************************************************************)
(* generateImage(prompt, size): apiOut is the generateContent response     *)
(* [ok, inlineData, error].  Returns the image data ("" for null) or       *)
(* throws PAYMENT_REQUIRED.                                                *)
(***************************************************************************)
isPaidModelError(e) ==
    \/ Includes(e.message, "404") \/ Includes(e.message, "not found")
    \/ Includes(e.message, "403") \/ e.status = 404 \/ e.status = 403

generateImage(apiOut) ==
    IF apiOut.ok
    THEN [threw |-> FALSE, error |-> NoError, data |-> apiOut.inlineData]
    ELSE IF isPaidModelError(apiOut.error)
    THEN [threw |-> TRUE, error |-> Err(0, 0, PAYMENT_REQUIRED), data |-> ""]
    ELSE [threw |-> FALSE, error |-> NoError, data |-> ""]

ImageOutcomes ==
    { [ok |-> TRUE, inlineData |-> d, error |-> NoError] : d \in {"iVBORw0KGgo", ""} }
    \cup { [ok |-> FALSE, inlineData |-> "", error |-> e] : e \in ChatErrors }

(***************************************************************************)
(* chatHybrid(query, chatHistory, document, links, persona, ragContext,    *)
(* customPersonaInstruction): one call, a step per await.                  *)
(***************************************************************************)
NoDocument     == [present |-> FALSE, content |-> "", mimeType |-> "", isBinary |-> FALSE]
Documents ==
    { NoDocument,
      [present |-> TRUE, content |-> "Quarterly report.", mimeType |-> "text/plain",
       isBinary |-> FALSE],
      [present |-> TRUE, content |-> "iVBORw0KGgo", mimeType |-> "image/png",
       isBinary |-> TRUE] }

SampleHistory == << [role |-> "user", parts |-> <<"hi">>],
                    [role |-> "model", parts |-> <<"Hello!">>] >>

\* The queries drawn, each with what it is: containing a location keyword,
\* a creation verb followed by a media noun, a video word.
Samples ==
    { [q |-> "Where is the Eiffel Tower?",  location |-> TRUE,  creation |-> FALSE, video |-> FALSE],
      [q |-> "generate an image of a cat",  location |-> FALSE, creation |-> TRUE,  video |-> FALSE],
      [q |-> "Draw a map picture",          location |-> TRUE,  creation |-> TRUE,  video |-> FALSE],
      [q |-> "show me a roadmap",           location |-> TRUE,  creation |-> FALSE, video |-> FALSE],
      [q |-> "make a video of waves",       location |-> FALSE, creation |-> FALSE, video |-> TRUE],
      [q |-> "animate the location",        location |-> TRUE,  creation |-> FALSE, video |-> TRUE],
      [q |-> "make a movie of the image",   location |-> FALSE, creation |-> TRUE,  video |-> TRUE],
      [q |-> "MAKE A PICTURE",              location |-> FALSE, creation |-> TRUE,  video |-> FALSE],
      [q |-> "remake the image",            location |-> FALSE, creation |-> FALSE, video |-> FALSE],
      [q |-> "draw\nart",                   location |-> FALSE, creation |-> FALSE, video |-> FALSE],
      [q |-> "animated art",                location |-> FALSE, creation |-> FALSE, video |-> FALSE],
      [q |-> "hello there",                 location |-> FALSE, creation |-> FALSE, video |-> FALSE] }
Queries == { x.q : x \in Samples }

LinkLists    == { <<>>, <<"https://a.example", "https://b.example">> }
RagContexts  == { "", "Source: Translation Result\nabcdefg" }
CustomTexts  == { "", "Talk like a pirate." }

IdleChat ==
    [pc |-> "idle", query |-> "", chatHistory |-> <<>>, document |-> NoDocument,
     links |-> <<>>, persona |-> GENERAL, ragContext |-> "",
     customPersonaInstruction |-> "",
     selectedModel |-> "", tools |-> <<>>, systemInstruction |-> "",
     message |-> "", apiHistory |-> <<>>,
     text |-> "", generatedImage |-> "", sources |-> <<>>, pending |-> <<>>,
     enhancedPrompt |-> "", imgData |-> "", polls |-> 0,
     operation |-> [done |-> FALSE, uri |-> ""],
     mainError |-> NoError, retryError |-> NoError,
     \* the backend error that ended a step, the images the tool produced,
     \* and whether a tool call ended without an image
     stepError |-> NoError, toolImages |-> 0, toolFailed |-> FALSE]

NoOutcome == [kind |-> "none", text |-> "", sources |-> <<>>, generatedImage |-> "",
              generatedVideo |-> "", error |-> NoError]
Return(text, sources, generatedImage, generatedVideo) ==
    [kind |-> "return", text |-> text, sources |-> sources,
     generatedImage |-> generatedImage, generatedVideo |-> generatedVideo,
     error |-> NoError]
Throw(error) ==
    [kind |-> "throw", text |-> "", sources |-> <<>>, generatedImage |-> "",
     generatedVideo |-> "", error |-> error]

\* A backend call as the log keeps it.
Call(kind, model, systemInstruction, tools, history, message) ==
    [kind |-> kind, model |-> model, systemInstruction |-> systemInstruction,
     tools |-> tools, history |-> history, message |-> message]

\* chatWithHuggingFace at rest.
IdleHf ==
    [pc |-> "idle", query |-> "", history |-> <<>>, systemInstruction |-> "",
     ragContext |-> "", i |-> 0, log |-> <<>>, answers |-> <<>>, result |-> ""]

\* fetchKnowledgeFromWeb at rest.
IdleWeb ==
    [pc |-> "idle", topic |-> "", log |-> <<>>, scrape |-> <<>>, attempts |-> <<>>,
     waits |-> <<>>, caught |-> NoError, result |-> "", threw |-> FALSE]

\* No notification has begun.
IdleNotify ==
    [pc |-> "idle", array |-> <<>>, k |-> 0, events |-> <<>>, carry |-> {}, round |-> 0]

\* handleSendMessage at rest.
IdleTurn ==
    [pc |-> "idle", msgText |-> "", file |-> NoDocument, useRAG |-> FALSE,
     provider |-> "", persona |-> GENERAL, links |-> <<>>,
     customPersonaInstruction |-> "", searched |-> FALSE, docs |-> <<>>,
     ragContext |-> "", showPaymentModal |-> FALSE, content |-> "",
     generatedVideo |-> ""]

ChatInit ==
    /\ chat = IdleChat
    /\ chLog = <<>>
    /\ chOut = NoOutcome
    /\ hf = IdleHf
    /\ turn = IdleTurn
    /\ web = IdleWeb
    /\ nt = IdleNotify

\* The call ends with the outcome out.
finish(c, out) ==
    /\ chat' = [c EXCEPT !.pc = "done"]
    /\ chOut' = out

\* Lines 593-633: tools, instruction, history, and the main sendMessage.
startMain(c) ==
    LET sel == selectTools(c.query, c.persona, c.document.present, c.selectedModel, c.tools)
        sys == composeInstruction(c.systemInstruction, sel.maps, c.ragContext,
                                  c.document.present)
        msg == IF Len(c.links) > 0
               THEN c.query \o LinksHeader \o Join(c.links, ", ")
               ELSE c.query
        hist == buildHistory(c.chatHistory, c.document)
    IN /\ chat' = [c EXCEPT !.pc = "main", !.selectedModel = sel.selectedModel,
                            !.tools = sel.tools, !.systemInstruction = sys,
                            !.message = msg, !.apiHistory = hist]
       /\ chLog' = Append(chLog, Call("main", sel.selectedModel, sys, sel.tools, hist, msg))
       /\ chOut' = chOut

\* chatHybrid up to its first await.
chatHybrid(query, document, links, persona, ragContext, customPersonaInstruction) ==
    /\ chat.pc = "idle"
    /\ LET c == [IdleChat EXCEPT
                    !.query = query, !.chatHistory = SampleHistory,
                    !.document = document, !.links = links, !.persona = persona,
                    !.ragContext = ragContext,
                    !.customPersonaInstruction = customPersonaInstruction,
                    !.selectedModel = MODEL_NAME, !.tools = <<>>,
                    !.systemInstruction =
                        personaInstruction(persona, customPersonaInstruction)]
       IN IF persona = VISUAL_CREATOR
          THEN /\ chat' = [c EXCEPT !.pc = "ensureKey", !.selectedModel = IMAGE_MODEL,
                                    !.tools = <<ImageTool>>]
               /\ UNCHANGED <<chLog, chOut>>
          ELSE startMain(c)

\* A call of chatHybrid on drawn arguments.
ChatCall(query, document, links, persona, ragContext, customPersonaInstruction) ==
    /\ chatHybrid(query, document, links, persona, ragContext, customPersonaInstruction)
    /\ ChatFrame

\* Lines 549-566: ensureApiKey() resolved; the video chain starts with the
\* prompt enhancement, or the standard call follows.
KeyEnsured ==
    /\ chat.pc = "ensureKey"
    /\ IF isVideoRequest(chat.query) /\ ~chat.document.present
       THEN /\ chat' = [chat EXCEPT !.pc = "enhance"]
            /\ chLog' = Append(chLog, Call("enhance", MODEL_NAME, "", <<>>, <<>>, chat.query))
            /\ chOut' = chOut
       ELSE startMain(chat)
    /\ ChatFrame

\* Line 549: the host's key dialogue rejected; no try block encloses the await.
KeyRejected ==
    /\ chat.pc = "ensureKey"
    /\ finish(chat, Throw(EHost))
    /\ chLog' = chLog
    /\ ChatFrame

\* Lines 585-589: the video chain's catch block.
pipelineCatch(c, error) ==
    /\ finish(c, IF error.message = PAYMENT_REQUIRED
                 THEN Throw(error)
                 ELSE Return(PipelineFailure, <<>>, "", ""))
    /\ chLog' = chLog

EnhanceTexts == { "", "  ", " A cat, cinematic lighting.\n" }

\* Lines 562-570: the enhancement resolved; generateImage is called.
EnhanceResolved ==
    /\ chat.pc = "enhance"
    /\ \/ \E e \in ChatErrors : pipelineCatch([chat EXCEPT !.stepError = e], e)
       \/ \E t \in EnhanceTexts :
            LET enhanced == IF Trim(t) # "" THEN Trim(t) ELSE chat.query IN
            /\ chat' = [chat EXCEPT !.pc = "image", !.enhancedPrompt = enhanced]
            /\ chLog' = Append(chLog, Call("image", IMAGE_MODEL, "", <<>>, <<>>, enhanced))
            /\ chOut' = chOut
    /\ ChatFrame

\* Lines 570-584: generateImage resolved; generateVeoVideo is called.
PipelineImageResolved ==
    /\ chat.pc = "image"
    /\ \E apiOut \in ImageOutcomes :
         LET r == generateImage(apiOut) IN
         IF r.threw THEN pipelineCatch([chat EXCEPT !.stepError = apiOut.error], r.error)
         ELSE IF r.data = ""
         THEN /\ finish([chat EXCEPT !.stepError = apiOut.error],
                        Return(BaseImageFailure, <<>>, "", ""))
              /\ chLog' = chLog
         ELSE /\ chat' = [chat EXCEPT !.pc = "video", !.imgData = r.data]
              /\ chLog' = Append(chLog, Call("video", VEO_MODEL, "", <<>>, <<>>,
                                             chat.enhancedPrompt))
              /\ chOut' = chOut
    /\ ChatFrame

\* generateVeoVideo, lines 486-493: its catch block, then the chain's.
veoCatch(c, error) ==
    pipelineCatch(c, IF isPaidModelError(error) THEN Err(0, 0, PAYMENT_REQUIRED) ELSE error)

\* generateVeoVideo, lines 481-485, and chatHybrid, lines 577-581.
videoDone(c, uri) ==
    /\ finish(c, Return(VideoGenerated(c.enhancedPrompt), <<>>, c.imgData,
                        IF uri # "" THEN uri \o "&key=" \o API_KEY ELSE ""))
    /\ chLog' = chLog

\* What generateVideos or getVideosOperation answers: an operation.
Operations(mayRun) ==
    { [done |-> TRUE, uri |-> u] : u \in {"https://video.example/v1?alt=media", ""} }
    \cup (IF mayRun THEN { [done |-> FALSE, uri |-> ""] } ELSE {})

\* A video step that gives up after the first poll: an operation still not
\* done then ends the call without a video.
videoStepGivesUp(c) ==
    \/ \E e \in ChatErrors : veoCatch([c EXCEPT !.stepError = e], e)
    \/ \E op \in Operations(c.polls < MaxPolls) :
         IF op.done THEN videoDone([c EXCEPT !.operation = op], op.uri)
         ELSE IF c.polls >= 1 THEN videoDone([c EXCEPT !.operation = op], "")
         ELSE /\ chat' = [c EXCEPT !.pc = "poll", !.polls = @ + 1, !.operation = op]
              /\ chLog' = Append(chLog, Call("poll", VEO_MODEL, "", <<>>, <<>>, ""))
              /\ chOut' = chOut

\* One answer of the video backend: to generateVideos, or to a poll.
videoStep(c) ==
    \/ \E e \in ChatErrors : veoCatch([c EXCEPT !.stepError = e], e)
    \/ \E op \in Operations(c.polls < MaxPolls) :
         IF op.done THEN videoDone([c EXCEPT !.operation = op], op.uri)
         ELSE /\ chat' = [c EXCEPT !.pc = "poll", !.polls = @ + 1, !.operation = op]
              /\ chLog' = Append(chLog, Call("poll", VEO_MODEL, "", <<>>, <<>>, ""))
              /\ chOut' = chOut

\* generateVeoVideo, lines 461-476: generateVideos resolved.
VideoSubmitted ==
    /\ chat.pc = "video"
    /\ videoStep(chat)
    /\ ChatFrame

\* generateVeoVideo, lines 476-479: a poll resolved.
VideoPolled ==
    /\ chat.pc = "poll"
    /\ videoStep(chat)
    /\ ChatFrame

\* Lines 689-712: the catch block of the standard call.
catch(c, error) ==
    LET decision == catchDecision(error, c.tools) IN
    IF decision = "retry"
    THEN /\ chat' = [c EXCEPT !.pc = "retry"]
         /\ chLog' = Append(chLog, Call("retry", c.selectedModel, c.systemInstruction,
                                        <<>>, c.apiHistory, c.message))
         /\ chOut' = chOut
    ELSE /\ finish(c, IF decision = "payment"
                      THEN Throw(Err(0, 0, PAYMENT_REQUIRED))
                      ELSE Return(NeutralFailure, <<>>, "", ""))
         /\ chLog' = chLog

\* Lines 643-687: the next function call of the response, or the result.
continueCalls(c) ==
    IF c.pending = <<>>
    THEN /\ finish(c, Return(c.text, c.sources, c.generatedImage, ""))
         /\ chLog' = chLog
    ELSE /\ chat' = [c EXCEPT !.pc = "toolImage", !.pending = Tail(@),
                              !.text = @ \o GeneratingNote]
         /\ chLog' = Append(chLog, Call("image", IMAGE_MODEL, "", <<>>, <<>>, "a cat"))
         /\ chOut' = chOut

\* What the standard call may answer under the tools sent.
MainResponses(tools) ==
    { [text |-> t, functionCalls |-> f, grounded |-> g] :
        t \in {"", "Here is the answer."},
        f \in IF tools = <<ImageTool>>
              THEN { <<>>, <<"generate_image">>, <<"generate_image", "generate_image">> }
              ELSE { <<>> },
        g \in IF tools = <<SearchTool>> \/ tools = <<MapsTool>>
              THEN {FALSE, TRUE} ELSE {FALSE} }

RetryTexts == {"", "Here is the answer."}

WebSource == [uri |-> "https://source.example", title |-> "Web Source"]

\* Lines 633-644 and 670-687: the standard call resolved.
MainResolved ==
    /\ chat.pc = "main"
    /\ \/ \E e \in ChatErrors : catch([chat EXCEPT !.mainError = e], e)
       \/ \E r \in MainResponses(chat.tools) :
            continueCalls([chat EXCEPT !.text = r.text,
                                       !.pending = r.functionCalls,
                                       !.sources = IF r.grounded THEN <<WebSource>> ELSE <<>>])
    /\ ChatFrame

\* Lines 649-665: generateImage resolved inside the function-call loop.
ToolImageResolved ==
    /\ chat.pc = "toolImage"
    /\ \E apiOut \in ImageOutcomes :
         LET r == generateImage(apiOut) IN
         IF r.threw THEN catch([chat EXCEPT !.stepError = apiOut.error], r.error)
         ELSE IF r.data = ""
         THEN continueCalls([chat EXCEPT !.stepError = apiOut.error, !.toolFailed = TRUE])
         ELSE /\ chat' = [chat EXCEPT !.pc = "toolReply", !.generatedImage = r.data,
                                      !.toolImages = @ + 1]
              /\ chLog' = Append(chLog, Call("functionResponse", chat.selectedModel,
                                             chat.systemInstruction, chat.tools,
                                             chat.apiHistory,
                                             "functionResponse:generate_image"))
              /\ chOut' = chOut
    /\ ChatFrame

\* Lines 653-665: the function-response message resolved.
ToolReplyResolved ==
    /\ chat.pc = "toolReply"
    /\ \/ continueCalls(chat)
       \/ \E e \in ChatErrors :
            IF e.message = PAYMENT_REQUIRED THEN catch(chat, e)
            ELSE continueCalls([chat EXCEPT !.text = @ \o ImageFailedNotice])
    /\ ChatFrame

\* Lines 700-701: the retry without tools resolved.
RetryResolved ==
    /\ chat.pc = "retry"
    /\ \/ \E t \in RetryTexts :
            /\ finish(chat, Return(t, <<>>, "", ""))
            /\ chLog' = chLog
       \/ \E e \in ChatErrors :
            /\ finish([chat EXCEPT !.retryError = e], Throw(e))
            /\ chLog' = chLog
    /\ ChatFrame

\* IntelligentChat.handleSendMessage, lines 358-372: what the chat panel
\* does with an error chatHybrid threw.
handleSendMessageCatch(e) ==
    IF e.message = PAYMENT_REQUIRED
    THEN [showPaymentModal |-> TRUE, content |-> ""]
    ELSE [showPaymentModal |-> FALSE,
          content |-> "Error processing request. Error: " \o e.message]

ChatNext ==
    \/ \E query \in Queries, document \in Documents, links \in LinkLists,
          persona \in ChatPersona, ragContext \in RagContexts,
          customPersonaInstruction \in CustomTexts :
           /\ (persona # CUSTOM => customPersonaInstruction = "")
           /\ ChatCall(query, document, links, persona, ragContext, customPersonaInstruction)
    \/ KeyEnsured
    \/ KeyRejected
    \/ EnhanceResolved
    \/ PipelineImageResolved
    \/ VideoSubmitted
    \/ VideoPolled
    \/ MainResolved
    \/ ToolImageResolved
    \/ ToolReplyResolved
    \/ RetryResolved

(***************************************************************************)
(* huggingFaceService.ts: chatWithHuggingFace(query, history,              *)
(* systemInstruction, ragContext), a step per awaited fetch.               *)
(***************************************************************************)
LOCAL_PROXY_URL == "http://localhost:5000/chat/hf"
\* The candidate list with Mistral moved to the front.
ModelsMistralFirst ==
    << "mistralai/Mistral-7B-Instruct-v0.2",
       "HuggingFaceH4/zephyr-7b-beta",
       "microsoft/Phi-3-mini-4k-instruct" >>
MODELS == << "HuggingFaceH4/zephyr-7b-beta",
             "microsoft/Phi-3-mini-4k-instruct",
             "mistralai/Mistral-7B-Instruct-v0.2" >>
HfFailure == "Error: Could not connect to Open Source model. \n\nTip: For the best experience, run the included 'backend/app.py' server to bypass browser restrictions, or use the Gemini provider."

getPromptForModel(modelId, query, history, systemInstruction, ragContext) ==
    LET \* history.slice(-4)
        msgs == SubSeq(history, IF Len(history) > 4 THEN Len(history) - 3 ELSE 1,
                       Len(history))
    IN
    IF Includes(modelId, "zephyr") \/ Includes(modelId, "Phi")
    THEN "<|system|>\n" \o systemInstruction \o "\n"
         \o (IF ragContext # "" THEN "CONTEXT:\n" \o ragContext \o "\n" ELSE "")
         \o "</s>\n"
         \o Join([k \in DOMAIN msgs |->
                    "<|" \o (IF msgs[k].role = "user" THEN "user" ELSE "assistant")
                         \o "|>\n" \o msgs[k].parts[1] \o "</s>\n"], "")
         \o "<|user|>\n" \o query \o "</s>\n<|assistant|>\n"
    ELSE IF Includes(modelId, "Mistral")
    THEN "<s>[INST] " \o systemInstruction \o "\n"
         \o (IF ragContext # "" THEN "CONTEXT:\n" \o ragContext \o "\n\n" ELSE "")
         \o Join([k \in DOMAIN msgs |->
                    (IF msgs[k].role = "user" THEN "User: " ELSE "Assistant: ")
                        \o msgs[k].parts[1] \o "\n"], "")
         \o "User: " \o query \o " [/INST]"
    ELSE systemInstruction \o "\n\nUser: " \o query \o "\nAssistant:"

\* What a fetch may give: a rejection (network, CORS, the 1.5 s abort), or a
\* response with a status and a body; valid tells that the body parses as
\* JSON, array that it is an array, generated_text is result[0].generated_text
\* and error is result.error ("" for undefined).
HfResponses ==
    LET HfBody(valid, array, generated_text, error) ==
            [valid |-> valid, array |-> array, generated_text |-> generated_text,
             error |-> error]
    IN
    { [rejected |-> TRUE, status |-> 0, body |-> HfBody(FALSE, FALSE, "", "")] }
    \cup { [rejected |-> FALSE, status |-> s, body |-> HfBody(FALSE, FALSE, "", "")] :
             s \in {503, 500} }
    \cup { [rejected |-> FALSE, status |-> 200, body |-> b] :
             b \in { HfBody(TRUE, TRUE, "Hi from the model.", ""),
                     HfBody(TRUE, TRUE, "", ""),
                     HfBody(TRUE, FALSE, "", "Model is overloaded"),
                     HfBody(TRUE, FALSE, "", ""),
                     HfBody(FALSE, FALSE, "", "") } }

\* A loop that goes through the candidates a second time before giving up.
hfLoopTwice(h, i) ==
    IF i > Len(MODELS) /\ Len(h.log) > Len(MODELS) + 1
    THEN [h EXCEPT !.pc = "done", !.result = HfFailure]
    ELSE LET j == IF i > Len(MODELS) THEN 1 ELSE i IN
         [h EXCEPT !.pc = "candidate", !.i = j,
                   !.log = Append(@,
                       [url |-> "https://api-inference.huggingface.co/models/" \o MODELS[j],
                        inputs |-> getPromptForModel(MODELS[j], h.query, h.history,
                                                     h.systemInstruction, h.ragContext),
                        do_sample |-> TRUE])]

\* Lines 79-115: the loop from candidate i on, or the text after the loop.
hfLoop(h, i) ==
    IF i > Len(MODELS)
    THEN [h EXCEPT !.pc = "done", !.result = HfFailure]
    ELSE [h EXCEPT !.pc = "candidate", !.i = i,
                   !.log = Append(@,
                       [url |-> "https://api-inference.huggingface.co/models/" \o MODELS[i],
                        inputs |-> getPromptForModel(MODELS[i], h.query, h.history,
                                                     h.systemInstruction, h.ragContext),
                        do_sample |-> TRUE])]

\* Lines 44-67: chatWithHuggingFace up to its first await.
chatWithHuggingFace(query, history, systemInstruction, ragContext) ==
    /\ hf.pc = "idle"
    /\ hf' = [IdleHf EXCEPT
                !.pc = "proxy", !.query = query, !.history = history,
                !.systemInstruction = systemInstruction, !.ragContext = ragContext,
                !.log = << [url |-> LOCAL_PROXY_URL,
                            inputs |-> getPromptForModel("HuggingFaceH4/zephyr-7b-beta",
                                           query, history, systemInstruction, ragContext),
                            do_sample |-> FALSE] >>]

\* A call of chatWithHuggingFace on drawn arguments.
HfCall(query, history, systemInstruction, ragContext) ==
    /\ chatWithHuggingFace(query, history, systemInstruction, ragContext)
    /\ HfFrame

\* Lines 59-76: the proxy's fetch settled.
HfProxyResolved ==
    /\ hf.pc = "proxy"
    /\ \E r \in HfResponses :
         LET h == [hf EXCEPT !.answers = Append(@, r)] IN
         hf' = IF ~r.rejected /\ r.status \in 200..299 /\ r.body.valid
               THEN [h EXCEPT !.pc = "done",
                              !.result = IF r.body.generated_text # ""
                                         THEN r.body.generated_text
                                         ELSE IF r.body.error # "" THEN r.body.error
                                         ELSE "No response."]
               ELSE hfLoop(h, 1)
    /\ HfFrame

\* Lines 84-112: a candidate's fetch settled.
HfCandidateResolved ==
    /\ hf.pc = "candidate"
    /\ \E r \in HfResponses :
         LET h == [hf EXCEPT !.answers = Append(@, r)] IN
         hf' = IF /\ ~r.rejected /\ r.status # 503 /\ r.status \in 200..299
                  /\ r.body.valid /\ r.body.array /\ r.body.generated_text # ""
               THEN [h EXCEPT !.pc = "done", !.result = r.body.generated_text]
               ELSE hfLoop(h, h.i + 1)
    /\ HfFrame

HfNext ==
    \/ \E query \in {"hello there", "What is RAG?"},
          history \in { <<>>, SampleHistory,
                        SampleHistory \o
                          << [role |-> "user", parts |-> <<"What is RAG?">>],
                             [role |-> "model", parts |-> <<"Retrieval.">>],
                             [role |-> "user", parts |-> <<"Thanks">>] >> },
          persona \in {GENERAL, CUSTOM}, ragContext \in RagContexts :
           HfCall(query, history, "You are a " \o persona \o ".", ragContext)
    \/ HfProxyResolved
    \/ HfCandidateResolved

(***************************************************************************)
(* IntelligentChat.tsx: handleSendMessage(msgText), one turn of the chat   *)
(* panel, a step per await.  file, useRAG, provider, persona, links and    *)
(* customPersonaInstruction are the component state the handler closed     *)
(* over.                                                                   *)
(***************************************************************************)
GEMINI == "Gemini (Google)"
HUGGING_FACE == "Mistral (HuggingFace)"

\* A retrieval that runs the search with a document attached as well.
turnProceedSearchingAlways(t, retrieved) ==
    IF ~retrieved /\ t.useRAG
    THEN /\ turn' = [t EXCEPT !.pc = "search", !.searched = TRUE]
         /\ UNCHANGED <<chatVars, hf>>
    ELSE IF t.provider = GEMINI
    THEN /\ turn' = [t EXCEPT !.pc = "chat"]
         /\ chatHybrid(t.msgText, t.file, t.links, t.persona, t.ragContext,
                       IF t.persona = CUSTOM THEN t.customPersonaInstruction ELSE "")
         /\ hf' = hf
    ELSE /\ turn' = [t EXCEPT !.pc = "hf"]
         /\ chatWithHuggingFace(t.msgText, SampleHistory,
                                "You are a " \o t.persona \o ".", t.ragContext)
         /\ UNCHANGED chatVars

\* Lines 316-345: the turn from the retrieval on; retrieved tells that the
\* retrieval step is over.
turnProceed(t, retrieved) ==
    IF ~retrieved /\ t.useRAG /\ ~t.file.present
    THEN /\ turn' = [t EXCEPT !.pc = "search", !.searched = TRUE]
         /\ UNCHANGED <<chatVars, hf>>
    ELSE IF t.provider = GEMINI
    THEN /\ turn' = [t EXCEPT !.pc = "chat"]
         /\ chatHybrid(t.msgText, t.file, t.links, t.persona, t.ragContext,
                       IF t.persona = CUSTOM THEN t.customPersonaInstruction ELSE "")
         /\ hf' = hf
    ELSE /\ turn' = [t EXCEPT !.pc = "hf"]
         /\ chatWithHuggingFace(t.msgText, SampleHistory,
                                "You are a " \o t.persona \o ".", t.ragContext)
         /\ UNCHANGED chatVars

\* Lines 269-285: handleSendMessage up to its first await.
handleSendMessage(msgText, file, useRAG, provider, persona, links, customPersonaInstruction) ==
    /\ turn.pc = "idle"
    /\ Trim(msgText) # ""
    /\ LET t == [IdleTurn EXCEPT
                    !.msgText = msgText, !.file = file, !.useRAG = useRAG,
                    !.provider = provider, !.persona = persona, !.links = links,
                    !.customPersonaInstruction = customPersonaInstruction]
       IN IF /\ persona = VISUAL_CREATOR /\ file.present
             /\ Len(file.mimeType) >= 6 /\ SubSeq(file.mimeType, 1, 6) = "image/"
          THEN /\ turn' = [t EXCEPT !.pc = "veo"]
               /\ UNCHANGED <<chatVars, hf>>
          ELSE turnProceed(t, FALSE)
    /\ TurnFrame

\* Lines 285-309: generateVeoVideo(file.content, ...) settled, with a uri,
\* with null, or with an error thrown.
TurnVeoResolved ==
    /\ turn.pc = "veo"
    /\ \/ /\ turn' = [turn EXCEPT !.pc = "done",
                                  !.content = "Here is your Veo generation:",
                                  !.generatedVideo =
                                      "https://video.example/v1?alt=media&key=" \o API_KEY]
          /\ UNCHANGED <<chatVars, hf>>
       \/ turnProceed(turn, FALSE)
       \/ \E e \in {Err(0, 0, PAYMENT_REQUIRED), ENetwork} :
            /\ turn' = [turn EXCEPT
                          !.pc = "done",
                          !.showPaymentModal = handleSendMessageCatch(e).showPaymentModal,
                          !.content = handleSendMessageCatch(e).content]
            /\ UNCHANGED <<chatVars, hf>>
    /\ TurnFrame

\* Lines 319-322: vectorStore.similaritySearch(userMsg.content) settled.
TurnRetrieved ==
    /\ turn.pc = "search"
    /\ \E docs \in { <<>>,
                     << [source |-> "Translation Result", text |-> "abcdefg"] >>,
                     << [source |-> "Translation Result", text |-> "abcdefg"],
                        [source |-> "notes.txt", text |-> "gabcdef"] >> } :
         turnProceed([turn EXCEPT
                        !.docs = docs,
                        !.ragContext =
                            Join([k \in DOMAIN docs |->
                                    "Source: " \o docs[k].source \o "\n" \o docs[k].text],
                                 "\n\n")],
                     TRUE)
    /\ TurnFrame

\* Lines 341-370: chatHybrid or chatWithHuggingFace settled.
TurnReplied ==
    /\ \/ /\ turn.pc = "chat" /\ chat.pc = "done"
          /\ turn' = IF chOut.kind = "return"
                     THEN [turn EXCEPT !.pc = "done", !.content = chOut.text]
                     ELSE [turn EXCEPT
                             !.pc = "done",
                             !.showPaymentModal =
                                 handleSendMessageCatch(chOut.error).showPaymentModal,
                             !.content = handleSendMessageCatch(chOut.error).content]
       \/ /\ turn.pc = "hf" /\ hf.pc = "done"
          /\ turn' = [turn EXCEPT !.pc = "done", !.content = hf.result]
    /\ UNCHANGED <<chatVars, hf>>
    /\ TurnFrame

TurnNext ==
    \/ \E msgText \in {"hello there", "Where is the Eiffel Tower?",
                       "make a video of waves", "generate an image of a cat"},
          file \in Documents, useRAG \in BOOLEAN, provider \in {GEMINI, HUGGING_FACE},
          persona \in {GENERAL, VISUAL_CREATOR, CUSTOM},
          customPersonaInstruction \in CustomTexts :
           /\ (persona # CUSTOM => customPersonaInstruction = "")
           /\ (provider = HUGGING_FACE => persona = GENERAL /\ msgText = "hello there")
           /\ handleSendMessage(msgText, file, useRAG, provider, persona, <<>>,
                                customPersonaInstruction)
    \/ TurnVeoResolved
    \/ TurnRetrieved
    \/ TurnReplied
    \/ KeyEnsured
    \/ KeyRejected
    \/ EnhanceResolved
    \/ PipelineImageResolved
    \/ VideoSubmitted
    \/ VideoPolled
    \/ MainResolved
    \/ ToolImageResolved
    \/ ToolReplyResolved
    \/ RetryResolved
    \/ HfProxyResolved
    \/ HfCandidateResolved

(***************************************************************************)
(* Specifications.  Each one runs one part of the program and leaves the   *)
(* variables of the other parts at rest.                                   *)
(***************************************************************************)
(***************************************************************************)
(* geminiService.ts: fetchKnowledgeFromWeb(topic).  The scraper on         *)
(* localhost is asked first, under a 3 s abort; then executeFetch, the     *)
(* search-grounded generateContent with its ungrounded second call, runs   *)
(* under withRetry(executeFetch, 3, 2000).  A request in web.log is        *)
(* [kind, url, model, contents, tools].                                    *)
(***************************************************************************)
SCRAPE_URL == "http://localhost:5000/scrape"

\* What the scraper's fetch may give: a rejection (network, the 3 s abort),
\* or a response with a status and a body; valid tells that the body parses
\* as JSON, content is data.content ("" for undefined or empty).
ScrapeResponses ==
    { [rejected |-> TRUE,  status |-> 0,   valid |-> FALSE, content |-> ""],
      [rejected |-> FALSE, status |-> 500, valid |-> TRUE,  content |-> "partial page"],
      [rejected |-> FALSE, status |-> 200, valid |-> FALSE, content |-> ""],
      [rejected |-> FALSE, status |-> 200, valid |-> TRUE,  content |-> ""],
      [rejected |-> FALSE, status |-> 200, valid |-> TRUE,  content |-> "Scraped page text."] }

\* One generateContent call as the backend settles it.
GenOk(text)    == [ok |-> TRUE, text |-> text, error |-> NoError]
GenFail(error) == [ok |-> FALSE, text |-> "", error |-> error]

\* What the backend may do over one run of executeFetch: the outcome of the
\* search-grounded call and of the ungrounded one (read only when made).
WebAttempts ==
    { [search |-> GenOk("Grounded summary."), plain |-> GenFail(ENetwork)],
      [search |-> GenOk(""),                  plain |-> GenFail(ENetwork)],
      [search |-> GenFail(E403),              plain |-> GenOk("Ungrounded summary.")],
      [search |-> GenFail(EPermission),       plain |-> GenFail(E500)],
      [search |-> GenFail(EPermission),       plain |-> GenFail(ENetwork)],
      [search |-> GenFail(E500),              plain |-> GenOk("Ungrounded summary.")],
      [search |-> GenFail(EInternal),         plain |-> GenFail(ENetwork)],
      [search |-> GenFail(ENetwork),          plain |-> GenOk("Ungrounded summary.")] }

WebRetries == 3
WebDelay   == 2000

\* An executeFetch without the ungrounded second call.
executeFetchSearchOnly(att) ==
    IF att.search.ok
    THEN [ok |-> TRUE, value |-> att.search.text, error |-> NoError, plainCalled |-> FALSE]
    ELSE [ok |-> FALSE, value |-> "", error |-> att.search.error, plainCalled |-> FALSE]

\* Lines 209-232, one run of executeFetch on the backend's answers att, as
\* [ok, value, error, plainCalled].
executeFetch(att) ==
    IF att.search.ok
    THEN [ok |-> TRUE, value |-> att.search.text, error |-> NoError, plainCalled |-> FALSE]
    ELSE IF att.search.error.status = 403
            \/ Includes(att.search.error.message, "PERMISSION_DENIED")
    THEN [ok |-> att.plain.ok, value |-> att.plain.text, error |-> att.plain.error,
          plainCalled |-> TRUE]
    ELSE [ok |-> FALSE, value |-> "", error |-> att.search.error, plainCalled |-> FALSE]

\* The generateContent requests of one run of executeFetch.
executeFetchRequests(topic, att) ==
    LET prompt == "Research: \"" \o topic \o "\". detailed summary."
        search == [kind |-> "search", url |-> "", model |-> MODEL_NAME,
                   contents |-> prompt, tools |-> <<SearchTool>>]
        plain  == [kind |-> "plain", url |-> "", model |-> MODEL_NAME,
                   contents |-> prompt, tools |-> <<>>]
    IN IF executeFetch(att).plainCalled THEN <<search, plain>> ELSE <<search>>

\* The generateContent requests of the runs of executeFetch, in order.
RECURSIVE webRequests(_, _)
webRequests(topic, atts) ==
    IF atts = <<>> THEN <<>>
    ELSE executeFetchRequests(topic, Head(atts)) \o webRequests(topic, Tail(atts))

\* Lines 186-197: fetchKnowledgeFromWeb up to its first await.
fetchKnowledgeFromWeb(topic) ==
    /\ web.pc = "idle"
    /\ web' = [IdleWeb EXCEPT
                 !.pc = "scrape", !.topic = topic,
                 !.log = << [kind |-> "scrape", url |-> SCRAPE_URL, model |-> "",
                             contents |-> topic, tools |-> <<>>] >>]
    /\ WebFrame

\* Lines 234-238: withRetry(executeFetch, 3, 2000) on the backend's answers
\* atts, one element per run, and the catch that turns an error into "".
webFallback(w, atts) ==
    LET r == withRetry([k \in DOMAIN atts |-> executeFetch(atts[k])], WebRetries, WebDelay)
        used == SubSeq(atts, 1, r.calls)
    IN [w EXCEPT !.pc = "done",
                 !.attempts = used,
                 !.waits = r.waits,
                 !.caught = IF r.ok THEN NoError ELSE r.error,
                 !.log = @ \o webRequests(w.topic, used),
                 !.result = IF r.ok THEN r.value ELSE ""]

\* Lines 192-238: the scraper's fetch settled; its content is returned, or
\* the generative calls run to their end.
WebScrapeResolved ==
    /\ web.pc = "scrape"
    /\ \E r \in ScrapeResponses :
         LET w == [web EXCEPT !.scrape = <<r>>] IN
         IF ~r.rejected /\ r.status \in 200..299 /\ r.valid /\ r.content # ""
         THEN web' = [w EXCEPT !.pc = "done", !.result = r.content]
         ELSE \E atts \in [1..(WebRetries + 1) -> WebAttempts] :
                 web' = webFallback(w, atts)
    /\ WebFrame

WebNext ==
    \/ \E topic \in {"AI trends", "https://example.com/post"} : fetchKnowledgeFromWeb(topic)
    \/ WebScrapeResolved

(***************************************************************************)
(* VectorStore.notify, callback by callback (src/unnamed/part_000 11-20).   *)
(* The callbacks here may call subscribe, or the function a subscribe       *)
(* returned, while listeners.forEach is running.                            *)
(***************************************************************************)

\* The function objects that get subscribed.
Callbacks == {"L1", "L2", "L3"}

\* What the body of a callback does to the store in one invocation.
CallbackActs(ls) ==
    {[op |-> "none", l |-> ""]}
    \cup (IF Len(ls) < MaxListeners
          THEN {[op |-> "subscribe", l |-> x] : x \in Callbacks \ Range(ls)}
          ELSE {})
    \cup {[op |-> "unsubscribe", l |-> y] : y \in Range(ls)}

\* Lines 12 and 14: push onto the current array; assign a filtered copy.
applyAct(ls, act) ==
    IF act.op = "subscribe" THEN Append(ls, act.l)
    ELSE IF act.op = "unsubscribe" THEN SelectSeq(ls, LAMBDA x : x # act.l)
    ELSE ls

\* A forEach that reads this.listeners and its length anew at every index.
forEachRestLive(n, ls) ==
    SubSeq(ls, n.k, Len(ls))

\* Array.prototype.forEach, line 19: the elements still to visit. forEach
\* walks the array object it was called on, up to the length that object had
\* at the call; unsubscribe assigns a new array to this.listeners and leaves
\* that object as it was, and subscribe pushes past that length, if it still
\* pushes onto that object at all.
forEachRest(n, ls) ==
    SubSeq(n.array, n.k, Len(n.array))

\* The callbacks subscribed during the notification n that were not
\* registered when it began.
SubscribedDuring(n) ==
    { l \in Callbacks :
        /\ l \notin Range(n.array)
        /\ \E i \in DOMAIN n.events : n.events[i] = [op |-> "subscribe", l |-> l] }

\* notify() is called: forEach starts on this.listeners.
NotifyBegin ==
    /\ nt.pc \in {"idle", "done"}
    /\ nt.round < MaxRounds
    /\ nt' = [pc |-> IF listeners = <<>> THEN "done" ELSE "running",
              array |-> listeners, k |-> 1, events |-> <<>>,
              carry |-> SubscribedDuring(nt), round |-> nt.round + 1]
    /\ UNCHANGED <<documents, listeners, calls, notified>>
    /\ NotifyFrame

\* forEach invokes the next callback, which runs to its end; nt.events keeps
\* the invocation and what the callback did to the subscriber list.
CallbackRuns ==
    /\ nt.pc = "running"
    /\ forEachRest(nt, listeners) # <<>>
    /\ LET l == forEachRest(nt, listeners)[1] IN
       \E act \in CallbackActs(listeners) :
          LET ls1 == applyAct(listeners, act)
              n1 == [nt EXCEPT !.k = @ + 1,
                               !.events = @ \o <<[op |-> "invoke", l |-> l]>>
                                            \o (IF act.op = "none" THEN <<>> ELSE <<act>>)]
          IN /\ listeners' = ls1
             /\ nt' = [n1 EXCEPT !.pc = IF forEachRest(n1, ls1) = <<>>
                                        THEN "done" ELSE "running"]
    /\ UNCHANGED <<documents, calls, notified>>
    /\ NotifyFrame

NotifyNext ==
    \/ nt.pc # "running" /\ \E l \in Callbacks \ Range(listeners) : Subscribe(l)
    \/ nt.pc # "running" /\ \E l \in Callbacks : Unsubscribe(l)
    \/ NotifyBegin
    \/ CallbackRuns

InitChunk == ChunkInit /\ StoreInit /\ SearchIdle /\ ChatInit
SpecChunk == InitChunk /\ [][ChunkCall]_vars

InitStore == ChunkIdle /\ StoreInit /\ SearchIdle /\ ChatInit
SpecStore == InitStore /\ [][AddNext]_vars

InitSearch == ChunkIdle /\ SearchInit /\ ChatInit
SpecSearch == InitSearch /\ [][SearchNext]_vars

InitChat == ChunkIdle /\ StoreInit /\ SearchIdle /\ ChatInit
SpecChat == InitChat /\ [][ChatNext]_vars
SpecHf   == InitChat /\ [][HfNext]_vars
SpecTurn == InitChat /\ [][TurnNext]_vars
SpecWeb  == InitChat /\ [][WebNext]_vars

(***************************************************************************)
(* The corpus and its subscribers: addDocument calls that overlap at       *)
(* their awaits, and the subscriptions of KnowledgeBase's effect, each a   *)
(* fresh closure, so that no callback is registered twice.  No operation   *)
(* reads an id, so one id is drawn here, and each call has a category of   *)
(* its own; getStats changes nothing and runs inside the callbacks         *)
(* (notify).                                                               *)
(***************************************************************************)
ListenNext ==
    \/ \E l \in Listeners \ Range(listeners) : Subscribe(l)
    \/ \E l \in Listeners : Unsubscribe(l)
    \/ \E c \in CallIds, text \in {TextOfLen(0), TextOfLen(700)} :
           AddDocumentCall(c, text, "Translation Result", IF c = 1 THEN "A" ELSE "B")
    \/ \E c \in CallIds : EmbedResolvedWith(c, {"k3x9"})

SpecListen == InitStore /\ [][ListenNext]_vars
SpecNotify == InitStore /\ [][NotifyNext]_vars

(***************************************************************************)
(* The corpus over all its operations: the above with one subscriber, and  *)
(* a similaritySearch.  Nothing in the code ties the length of the vector  *)
(* the backend answers for the query to the length of the stored ones:     *)
(* the query gets a vector of their length or a shorter one.               *)
(***************************************************************************)
CorpusNext ==
    \/ Len(listeners) = 0 /\ Subscribe("L1")
    \/ Unsubscribe("L1")
    \/ \E c \in CallIds, text \in {TextOfLen(0), TextOfLen(700)} :
           AddDocumentCall(c, text, "Translation Result", IF c = 1 THEN "A" ELSE "B")
    \/ \E c \in CallIds : EmbedResolvedWith(c, {"k3x9"})
    \/ SearchCall(DefaultTopK)
    \/ SearchResolvedWith({<<1, 0>>, <<1>>})

InitCorpus ==
    /\ ChunkIdle /\ StoreInit /\ ChatInit
    /\ srPc = "idle"
    /\ srEmbedOk = FALSE
    /\ srQueryEmbedding = <<>>
    /\ srTopK = DefaultTopK
    /\ srResult = <<>>
    /\ srOrder = <<>>
    /\ srEarlier = <<>>
SpecCorpus == InitCorpus /\ [][CorpusNext]_vars

(***************************************************************************)
(* similaritySearch called again and again on one corpus, which no         *)
(* addDocument changes meanwhile.  The corpora hold entries of equal       *)
(* score, of unequal scores, and of scores that are not numbers.           *)
(***************************************************************************)
RankCorpora ==
    LET a == <<1, 0>>
        b == <<1, 1>>
        z == <<0, 0>>
    IN { [k \in DOMAIN vs |-> EntryAt(k, vs[k])] :
           vs \in { <<>>, <<a>>, <<a, a>>, <<b, a>>, <<a, b, a>>, <<b, b, a>>,
                    <<b, z, a>>, <<z, a, b>>, <<a, z, z>>, <<z, z>> } }

RankNext ==
    \/ \E topK \in {1, DefaultTopK} : SearchCall(topK)
    \/ SearchResolvedWith({<<1, 0>>})
    \/ SearchAgain

InitRank ==
    /\ ChunkIdle /\ ChatInit
    /\ documents \in RankCorpora
    /\ listeners = <<>>
    /\ calls = [c \in CallIds |-> IdleCall]
    /\ notified = <<>>
    /\ srPc = "idle"
    /\ srEmbedOk = FALSE
    /\ srQueryEmbedding = <<>>
    /\ srTopK = DefaultTopK
    /\ srResult = <<>>
    /\ srOrder = <<>>
    /\ srEarlier = <<>>
SpecRank == InitRank /\ [][RankNext]_vars

(***************************************************************************)
(* Claims.                                                                 *)
(***************************************************************************)

\* The positions of the fragments of call record cr whose embedding succeeded.
SucceededFragments(cr) ==
    SelectSeq([k \in DOMAIN cr.chunks |-> k], LAMBDA k : cr.fragOk[k])

\* C1: a finished addDocument call attempted every fragment, returns the
\* number of fragments whose embedding succeeded (0 when all failed), and
\* appended exactly those fragments, in order; the corpus holds exactly the
\* entries the calls appended, each once.
C1_AddDocumentCountsSuccesses ==
    /\ \A c \in CallIds :
         calls[c].pc = "done" =>
           LET cr == calls[c]
               okAt == SucceededFragments(cr)
           IN /\ Len(cr.fragOk) = Len(cr.chunks)
              /\ cr.result = Len(okAt)
              /\ Len(cr.appended) = cr.result
              /\ \A j \in DOMAIN cr.appended :
                     /\ cr.appended[j] \in (cr.before + 1)..Len(documents)
                     /\ documents[cr.appended[j]].text = cr.chunks[okAt[j]]
                     /\ \A i \in 1..(j - 1) : cr.appended[i] < cr.appended[j]
    /\ \A k \in DOMAIN documents :
         \E c \in CallIds : k \in Range(calls[c].appended)
    /\ \A c, d \in CallIds :
         c # d => Range(calls[c].appended) \cap Range(calls[d].appended) = {}

\* C1 happens: three fragments, the 2nd failed, the call returned 2.
C1_Witness ==
    \E c \in CallIds :
        /\ calls[c].pc = "done"
        /\ calls[c].fragOk = <<TRUE, FALSE, TRUE>>
        /\ calls[c].result = 2

\* C2: chunkText(T, S) cuts T into consecutive slices that do not overlap
\* and concatenate to T; each has 1..S characters, all but the last exactly
\* S; the empty text gives no fragment.
C2_ChunksPartitionText ==
    ckPc = "done" =>
        /\ Concat(ckChunks) = ckText
        /\ \A k \in DOMAIN ckChunks :
               /\ Len(ckChunks[k]) \in 1..ckSize
               /\ k < Len(ckChunks) => Len(ckChunks[k]) = ckSize
               /\ ckChunks[k] = SubSeq(ckText, (k - 1) * ckSize + 1,
                                       Min(k * ckSize, Len(ckText)))
        /\ (ckText = "" => ckChunks = <<>>)

\* C2 happens: a text cut into several fragments, the last one short.
C2_Witness ==
    /\ ckPc = "done"
    /\ Len(ckChunks) >= 2
    /\ Len(ckChunks[Len(ckChunks)]) < ckSize

\* C3: with a query embedding and a non-empty corpus, similaritySearch
\* returns min(topK, corpus size) entries, no entry before a higher-scoring
\* one, none left out that outscores a returned one, and equal scores in
\* insertion order.
C3_SearchReturnsRankedTopK ==
    (srPc = "done" /\ srEmbedOk /\ Len(documents) > 0) =>
        LET scores == scoreAll(srQueryEmbedding, documents)
            left == DOMAIN documents \ Range(srOrder)
        IN /\ Len(srResult) = Min(srTopK, Len(documents))
           /\ \A i, j \in DOMAIN srOrder :
                  i < j => /\ srOrder[i] # srOrder[j]
                           /\ ~ScoreLess(scores[srOrder[i]], scores[srOrder[j]])
                           /\ ScoreEqual(scores[srOrder[i]], scores[srOrder[j]])
                                  => srOrder[i] < srOrder[j]
           /\ \A i \in DOMAIN srOrder, x \in left :
                  /\ ~ScoreLess(scores[srOrder[i]], scores[x])
                  /\ ScoreEqual(scores[srOrder[i]], scores[x]) => srOrder[i] < x
           /\ \A k \in DOMAIN srResult : srResult[k] = documents[srOrder[k]]

\* The ranking of C3 on corpora and queries whose scores are all numbers.
SearchScoresAreNumbers ==
    \A k \in DOMAIN documents :
        ~cosineSimilarity(srQueryEmbedding, documents[k].embedding).nan
RankedWhenScoresAreNumbers ==
    (srPc = "done" /\ srEmbedOk /\ SearchScoresAreNumbers) => C3_SearchReturnsRankedTopK

\* C4: similaritySearch never throws, and returns the empty sequence when
\* the corpus is empty or the query embedding failed, whatever topK.
C4_SearchEmptyOnNoCorpusOrNoEmbedding ==
    /\ srPc # "threw"
    /\ (srPc = "done" /\ (Len(documents) = 0 \/ ~srEmbedOk)) => srResult = <<>>

\* C4 happens: the query embedding failed over a non-empty corpus.
C4_Witness ==
    /\ srPc = "done"
    /\ ~srEmbedOk
    /\ Len(documents) > 0
    /\ srTopK > 0

\* The errors the catch block takes for permission errors.
IsPermissionError(e) == e.status = 403 \/ Includes(e.message, "PERMISSION_DENIED")

\* The calls of kind k in the log.
CallsOfKind(k) == SelectSeq(chLog, LAMBDA x : x.kind = k)

\* C5: once the main call has failed with a permission error while tools
\* were enabled, the log is the main call followed by one retry that differs
\* from it in its tools only, which are none; and when the retry succeeded
\* the caller got a plain text result, the retry's text, and no error.
C5_PermissionErrorRetriesOnceWithoutTools ==
    (IsPermissionError(chat.mainError) /\ chat.tools # <<>>) =>
        /\ chat.pc \in {"retry", "done"}
        /\ Len(chLog) = 2
        /\ chLog[1].kind = "main"
        /\ chLog[1].tools = chat.tools
        /\ chLog[2] = [chLog[1] EXCEPT !.kind = "retry", !.tools = <<>>]
        /\ (chat.pc = "done" /\ chat.retryError = NoError) =>
               /\ chOut.kind = "return"
               /\ chOut.text \in RetryTexts
               /\ chOut.error = NoError
               /\ chOut.text # NeutralFailure

\* C5 happens: a 403 with links in the message and a tool enabled, and the
\* retry answered.
C5_Witness ==
    /\ chat.pc = "done"
    /\ chat.mainError = E403
    /\ chat.tools # <<>>
    /\ chat.links # <<>>
    /\ chat.retryError = NoError
    /\ chOut.text = "Here is the answer."

\* C6: when the main call failed with a permission error and either no tool
\* was enabled or the retry failed too, the caller gets an error whose
\* message is PAYMENT_REQUIRED, which the chat panel answers with the
\* payment dialogue.
C6_PermissionFailureSurfacesPaymentRequired ==
    (chat.pc = "done" /\ IsPermissionError(chat.mainError)
        /\ (chat.tools = <<>> \/ chat.retryError # NoError)) =>
        /\ chOut.kind = "throw"
        /\ chOut.error.message = PAYMENT_REQUIRED
        /\ handleSendMessageCatch(chOut.error).showPaymentModal

\* C7: a main call that failed with a server error was attempted once and
\* then DefaultRetries more times before chatHybrid gave up.
C7_MainCallRetriedOnServerError ==
    (chat.pc = "done" /\ isInternal(chat.mainError)) =>
        Len(CallsOfKind("main")) = DefaultRetries + 1

\* C8: whatever chatHybrid throws has the message PAYMENT_REQUIRED.
C8_OnlyPaymentRequiredEscapes ==
    chOut.kind = "throw" => chOut.error.message = PAYMENT_REQUIRED

\* The sample the call's query was drawn from.
SampleOf(q) == CHOOSE x \in Samples : x.q = q

\* The call went the standard way: its main call is in the log.
MainCallMade == chat.pc # "idle" /\ CallsOfKind("main") # <<>>
MainCall == CallsOfKind("main")[1]

\* C9: for a persona other than the visual one and a query with a location
\* keyword, the main call goes to the maps model with the maps tool as its
\* only tool, and the system instruction is the persona's followed by the
\* maps instruction (then the context blocks), with or without a document
\* and a creation pattern.
C9_LocationQuerySelectsMaps ==
    (MainCallMade /\ chat.persona # VISUAL_CREATOR /\ SampleOf(chat.query).location) =>
        /\ MainCall.model = MAPS_MODEL
        /\ MainCall.tools = <<MapsTool>>
        /\ \A k \in DOMAIN MainCall.tools : MainCall.tools[k] # SearchTool
        /\ MainCall.systemInstruction =
              personaInstruction(chat.persona, chat.customPersonaInstruction)
                \o MapsInstruction
                \o (IF chat.ragContext # "" THEN RagHeader \o chat.ragContext ELSE "")
                \o (IF chat.document.present THEN DocumentMarker ELSE "")

\* C9 happens: a query with a location keyword and a creation pattern, no
\* document attached, sent with the maps tool.
C9_Witness ==
    /\ MainCallMade
    /\ chat.persona = GENERAL
    /\ SampleOf(chat.query).location
    /\ SampleOf(chat.query).creation
    /\ ~chat.document.present
    /\ MainCall.tools = <<MapsTool>>

\* C10: for a persona other than the visual one and a query without a
\* location keyword, the main call carries the image tool when no document
\* is attached and the query has a creation pattern, the search tool when no
\* document is attached and it has none, and no tool when a document is
\* attached; the model is the default one.
C10_ToolByCreationPatternAndDocument ==
    (MainCallMade /\ chat.persona # VISUAL_CREATOR /\ ~SampleOf(chat.query).location) =>
        /\ MainCall.model = MODEL_NAME
        /\ MainCall.tools =
              IF chat.document.present THEN <<>>
              ELSE IF SampleOf(chat.query).creation THEN <<ImageTool>>
              ELSE <<SearchTool>>

\* C10 happens: all three cases, told apart by the call that was sent.
C10_Witness ==
    /\ MainCallMade
    /\ chat.persona = RESEARCHER
    /\ ~SampleOf(chat.query).location
    /\ SampleOf(chat.query).creation
    /\ chat.document.present
    /\ MainCall.tools = <<>>

\* C11: for the visual persona a query with a location keyword does not
\* send the main call to the maps model nor with the maps tool.
C11_VisualPersonaNeverSelectsMaps ==
    (MainCallMade /\ chat.persona = VISUAL_CREATOR /\ SampleOf(chat.query).location) =>
        /\ MainCall.model # MAPS_MODEL
        /\ \A k \in DOMAIN MainCall.tools : MainCall.tools[k] # MapsTool

\* The tool kinds of a tools array.
ToolKinds(tools) == { tools[k] : k \in DOMAIN tools }

\* C12: every call in the log that carries a tool configuration holds at
\* most one tool kind; web search is never together with the image tool or
\* the maps tool.
C12_AtMostOneToolKind ==
    \A n \in DOMAIN chLog :
        /\ Cardinality(ToolKinds(chLog[n].tools)) <= 1
        /\ Len(chLog[n].tools) <= 1
        /\ SearchTool \in ToolKinds(chLog[n].tools) =>
               ToolKinds(chLog[n].tools) \cap {ImageTool, MapsTool} = {}

\* C12 happens: a query with a creation pattern and a location keyword, no
\* document attached, went out with the maps tool alone.
C12_Witness ==
    /\ MainCallMade
    /\ SampleOf(chat.query).creation
    /\ SampleOf(chat.query).location
    /\ ~chat.document.present
    /\ MainCall.tools = <<MapsTool>>

\* The answer r carries a generated text.
YieldsText(r) ==
    /\ ~r.rejected /\ r.status = 200
    /\ r.body.valid /\ r.body.array /\ r.body.generated_text # ""

\* C20: the first request goes to the local proxy and no other does; the
\* later requests go to zephyr, Phi-3 and Mistral, in that order, each at
\* most once; a candidate is contacted only after the proxy was rejected,
\* answered a non-OK status or an unreadable body, and after every earlier
\* candidate gave no generated text (a 503 included); the result is the text
\* of the candidate that gave one, and that candidate is the last contacted.
C20_ProxyThenCandidatesInOrder ==
    hf.pc # "idle" =>
        LET order == << "https://api-inference.huggingface.co/models/HuggingFaceH4/zephyr-7b-beta",
                        "https://api-inference.huggingface.co/models/microsoft/Phi-3-mini-4k-instruct",
                        "https://api-inference.huggingface.co/models/mistralai/Mistral-7B-Instruct-v0.2" >>
        IN /\ Len(hf.log) \in 1..4
           /\ hf.log[1].url = "http://localhost:5000/chat/hf"
           /\ \A n \in 2..Len(hf.log) : hf.log[n].url = order[n - 1]
           /\ Len(hf.answers) = IF hf.pc = "done" THEN Len(hf.log) ELSE Len(hf.log) - 1
           /\ Len(hf.log) > 1 =>
                  \/ hf.answers[1].rejected
                  \/ hf.answers[1].status \notin 200..299
                  \/ ~hf.answers[1].body.valid
           /\ \A n \in 2..Len(hf.answers) :
                  IF YieldsText(hf.answers[n])
                  THEN /\ n = Len(hf.log)
                       /\ hf.pc = "done"
                       /\ hf.result = hf.answers[n].body.generated_text
                  ELSE hf.pc = "done" /\ n = Len(hf.log) => n = 4 /\ hf.result = HfFailure

\* C20 happens: the proxy was unreachable, zephyr answered 503, Phi-3 gave
\* the text, Mistral was not contacted.
C20_Witness ==
    /\ hf.pc = "done"
    /\ Len(hf.log) = 3
    /\ hf.answers[1].rejected
    /\ hf.answers[2].status = 503
    /\ hf.result = "Hi from the model."

\* C13: a turn with a document attached runs no similarity search and
\* passes an empty retrieved context to the backend, and no call of the
\* turn carries a system instruction with both the RAG-context block and the
\* document-context marker.
C13_DocumentAndRagNeverCombined ==
    /\ turn.file.present =>
           /\ ~turn.searched
           /\ turn.docs = <<>>
           /\ turn.ragContext = ""
           /\ chat.ragContext = ""
           /\ hf.ragContext = ""
    /\ turn.pc # "idle" =>
           \A n \in DOMAIN chLog :
               ~(/\ Includes(chLog[n].systemInstruction, "[RAG CONTEXT]")
                 /\ Includes(chLog[n].systemInstruction, "[DOCUMENT CONTEXT]"))

\* C13 happens: retrieval switched on, a document attached, and the main
\* call sent with the document marker.
C13_Witness ==
    /\ turn.useRAG
    /\ turn.file.present
    /\ turn.pc = "done"
    /\ chLog # <<>>
    /\ Includes(chLog[1].systemInstruction, "[DOCUMENT CONTEXT]")

\* The persona part of the call's system instruction: the persona's
\* template, or for the custom persona with a user instruction the base
\* preamble followed by that text.
PersonaPart ==
    IF chat.persona = CUSTOM /\ chat.customPersonaInstruction # ""
    THEN BASE_SYSTEM_INSTRUCTION \o "\n\n[CUSTOM PERSONA INSTRUCTION]\n"
             \o chat.customPersonaInstruction
    ELSE PERSONA_PROMPTS[chat.persona]

\* The context blocks of the call's system instruction: the RAG block iff
\* the retrieved context is non-empty, then the document marker iff a
\* document is attached.
ContextPart ==
    (IF chat.ragContext # "" THEN "\n\n[RAG CONTEXT]\n" \o chat.ragContext ELSE "")
        \o (IF chat.document.present
            THEN "\n\n[DOCUMENT CONTEXT]\nAnalyze the uploaded document." ELSE "")

\* C14 as stated: the system instruction of every chat call is the persona
\* part followed by the context blocks, and nothing else.
C14_InstructionIsPersonaThenContext ==
    \A n \in DOMAIN chLog :
        chLog[n].kind \in {"main", "retry", "functionResponse"} =>
            chLog[n].systemInstruction = PersonaPart \o ContextPart

\* C14 amended: the system instruction of every chat call is the persona
\* part, then the maps instruction iff the query has a location keyword,
\* then the context blocks.
C14_InstructionIsPersonaMapsThenContext ==
    \A n \in DOMAIN chLog :
        chLog[n].kind \in {"main", "retry", "functionResponse"} =>
            chLog[n].systemInstruction =
                PersonaPart
                    \o (IF SampleOf(chat.query).location THEN MapsInstruction ELSE "")
                    \o ContextPart

\* C14 happens: the custom persona with a user instruction, a retrieved
\* context and a document, on a query without location keyword.
C14_Witness ==
    /\ MainCallMade
    /\ chat.persona = CUSTOM
    /\ chat.customPersonaInstruction # ""
    /\ chat.ragContext # ""
    /\ chat.document.present
    /\ ~SampleOf(chat.query).location
    /\ MainCall.systemInstruction = PersonaPart \o ContextPart

\* The kinds of the calls in the log, in order.
LogKinds == [n \in DOMAIN chLog |-> chLog[n].kind]

\* The call went through the visual pipeline: its first call is the prompt
\* enhancement.
PipelineEntered == chLog # <<>> /\ chLog[1].kind = "enhance"

\* C15: a call that reached the backend entered the pipeline exactly when
\* the persona is the visual one, the query has a video word as a whole word
\* and no document is attached; the pipeline's calls are the enhancement,
\* then the image, then the video submission and its polls, one each; the
\* video is submitted only once the image step returned an image; and no
\* chat call is in the log.
C15_PipelineEntryAndOrder ==
    /\ chLog # <<>> =>
          (PipelineEntered <=>
              /\ chat.persona = VISUAL_CREATOR
              /\ SampleOf(chat.query).video
              /\ ~chat.document.present)
    /\ PipelineEntered =>
          /\ \A n \in DOMAIN chLog :
                LogKinds[n] = IF n = 1 THEN "enhance"
                              ELSE IF n = 2 THEN "image"
                              ELSE IF n = 3 THEN "video"
                              ELSE "poll"
          /\ Len(chLog) >= 3 => chat.imgData # ""
          /\ CallsOfKind("main") = <<>> /\ CallsOfKind("retry") = <<>>
          /\ CallsOfKind("functionResponse") = <<>>

\* C15 happens: the three steps ran and a video came back.
C15_Witness ==
    /\ chat.pc = "done"
    /\ PipelineEntered
    /\ Len(chLog) >= 3
    /\ chOut.generatedVideo # ""

\* C16: a result with the "Video Generated" text carries a reference image
\* and a video reference.
C16_VideoSuccessCarriesImageAndVideo ==
    (chat.pc = "done" /\ chOut.kind = "return"
        /\ chOut.text = VideoGenerated(chat.enhancedPrompt)) =>
        /\ chOut.generatedImage # ""
        /\ chOut.generatedVideo # ""

\* C17: a pipeline that ended at its image step, whatever made the step
\* fail, ended in a returned failure message.
C17_ImageStepFailureReturnsMessage ==
    (chat.pc = "done" /\ PipelineEntered /\ Len(chLog) = 2) =>
        /\ chOut.kind = "return"
        /\ chOut.text \in {BaseImageFailure, PipelineFailure}

\* C18: a pipeline that ended at its enhancement or at its video step on a
\* backend error of status 403 or 404 threw PAYMENT_REQUIRED.
C18_AccessRestrictionPropagates ==
    (chat.pc = "done" /\ PipelineEntered /\ Len(chLog) # 2
        /\ chat.stepError.status \in {403, 404}) =>
        /\ chOut.kind = "throw"
        /\ chOut.error.message = PAYMENT_REQUIRED

\* C19: the function-response messages sent are as many as the images the
\* tool produced, and a returned text carries the failure notice whenever a
\* tool call ended without an image and without access restriction.
C19_FunctionResponseIffImageElseNotice ==
    /\ Len(CallsOfKind("functionResponse")) = chat.toolImages
    /\ (chat.pc = "done" /\ chOut.kind = "return" /\ chat.toolFailed) =>
           Includes(chOut.text, "[Image Generation Failed: Please try again]")

\* C21: a call makes at most one proxy request plus one request per
\* candidate and is over once the last of them has settled; it ends in no
\* state other than a returned text; and when the proxy was rejected,
\* answered a non-OK status or an unreadable body, and no candidate gave a
\* generated text, every candidate was contacted and the text returned is the
\* fixed one, which advises using the Gemini provider.
C21_AllFailReturnsFixedText ==
    hf.pc # "idle" =>
        /\ hf.pc \in {"proxy", "candidate", "done"}
        /\ Len(hf.log) <= 1 + Len(MODELS)
        /\ Len(hf.answers) = 1 + Len(MODELS) => hf.pc = "done"
        /\ hf.pc = "done" => Len(hf.result) > 0
        /\ ( /\ hf.pc = "done"
             /\ \/ hf.answers[1].rejected
                \/ hf.answers[1].status \notin 200..299
                \/ ~hf.answers[1].body.valid
             /\ \A n \in 2..Len(hf.answers) : ~YieldsText(hf.answers[n]) )
           => /\ Len(hf.answers) = 1 + Len(MODELS)
              /\ hf.result = "Error: Could not connect to Open Source model. \n\nTip: For the best experience, run the included 'backend/app.py' server to bypass browser restrictions, or use the Gemini provider."
              /\ Includes(hf.result, "use the Gemini provider")

\* C21 happens: the proxy was unreachable, zephyr was loading (503), Phi-3
\* refused (500), Mistral answered a body without text; the fixed text came
\* back after the four requests.
C21_Witness ==
    /\ hf.pc = "done"
    /\ Len(hf.answers) = 4
    /\ hf.answers[1].rejected
    /\ hf.answers[2].status = 503
    /\ hf.answers[3].status = 500
    /\ hf.answers[4].status = 200 /\ ~YieldsText(hf.answers[4])
    /\ hf.result = HfFailure

\* C22: the callbacks run only in the step that ends an addDocument call;
\* when the call indexed at least one fragment that step runs every callback
\* subscribed at that moment once, in registration order, and when it
\* indexed none the step runs no callback.
C22_NotifyOncePerSuccessfulCall ==
    [][ LET finished == { c \in CallIds : calls[c].pc # "done" /\ calls'[c].pc = "done" }
        IN /\ finished = {} => notified' = notified
           /\ \A c \in finished :
                IF calls'[c].result > 0
                THEN /\ Len(notified') = Len(notified) + Len(listeners)
                     /\ SubSeq(notified', 1, Len(notified)) = notified
                     /\ \A k \in DOMAIN listeners :
                          /\ notified'[Len(notified) + k].listener = listeners[k]
                          /\ notified'[Len(notified) + k].call = c
                ELSE notified' = notified
      ]_vars

\* C22 happens: with L2 registered before L1, call 1 indexed both fragments
\* of its document and ran L2 then L1, once each; call 2 indexed nothing and
\* ran no callback.
C22_Witness ==
    /\ listeners = <<"L2", "L1">>
    /\ calls[1].pc = "done" /\ calls[1].result = 2
    /\ calls[2].pc = "done" /\ calls[2].result = 0 /\ Len(calls[2].chunks) = 2
    /\ Len(notified) = 2
    /\ notified[1].listener = "L2" /\ notified[1].call = 1
    /\ notified[2].listener = "L1" /\ notified[2].call = 1

\* C23: a step that runs callbacks is the step in which their addDocument
\* call ends, so they run before the caller resumes with the result; what
\* getStats gives inside each callback is computed on the corpus as that
\* step leaves it, and that corpus holds, at the positions the call
\* appended, every fragment the call indexed, so the total counts them all.
C23_CallbackSeesWholeMutation ==
    [][ \A n \in (Len(notified) + 1)..Len(notified') :
          LET e  == notified'[n]
              cr == calls'[e.call]
              okAt == SucceededFragments(cr)
          IN /\ calls[e.call].pc # "done" /\ cr.pc = "done"
             /\ e.stats = getStats(documents')
             /\ e.stats.totalDocuments >= cr.before + cr.result
             /\ Len(cr.appended) = Len(okAt)
             /\ \A j \in DOMAIN cr.appended :
                   /\ cr.appended[j] <= e.stats.totalDocuments
                   /\ documents'[cr.appended[j]].text = cr.chunks[okAt[j]]
             /\ cr.category \in Range(e.stats.categories)
      ]_vars

\* C23 happens: call 1 indexed both fragments of its document while call 2
\* had indexed one of its own, and the callback counted three entries in the
\* two categories.
C23_Witness ==
    /\ Len(notified) = 1
    /\ notified[1].call = 1
    /\ calls[1].result = 2
    /\ calls[2].pc = "await" /\ calls[2].successCount = 1
    /\ notified[1].stats.totalDocuments = 3
    /\ Len(notified[1].stats.categories) = 2

\* C24: getStats() on the corpus gives the number of entries as its total,
\* and a category list in which every category of the corpus occurs, none
\* occurs twice, nothing else occurs, and a category whose first entry comes
\* earlier in the corpus stands earlier in the list; the statistics a
\* callback read are of that kind too.
C24_StatsCountAndFirstSeenCategories ==
    LET FirstAt(cat) == CHOOSE k \in DOMAIN documents :
                            /\ documents[k].category = cat
                            /\ \A j \in 1..(k - 1) : documents[j].category # cat
        st == getStats(documents)
    IN /\ st.totalDocuments = Len(documents)
       /\ { st.categories[i] : i \in DOMAIN st.categories }
            = { documents[k].category : k \in DOMAIN documents }
       /\ \A i, j \in DOMAIN st.categories :
            i < j => /\ st.categories[i] # st.categories[j]
                     /\ FirstAt(st.categories[i]) < FirstAt(st.categories[j])
       /\ \A n \in DOMAIN notified :
            /\ notified[n].stats.totalDocuments <= Len(documents)
            /\ \A i, j \in DOMAIN notified[n].stats.categories :
                 i < j => /\ notified[n].stats.categories[i] # notified[n].stats.categories[j]
                          /\ FirstAt(notified[n].stats.categories[i])
                               < FirstAt(notified[n].stats.categories[j])

\* C24 happens: the corpus has entries of the categories A, B, A, and the
\* callback that ran on it read a total of 3 and the list [A, B].
C24_Witness ==
    /\ Len(documents) = 3
    /\ documents[1].category = "A"
    /\ documents[2].category = "B"
    /\ documents[3].category = "A"
    /\ \E n \in DOMAIN notified :
         /\ notified[n].stats.totalDocuments = 3
         /\ notified[n].stats.categories = <<"A", "B">>

\* C25: whatever the embedding backend does over the attempts of one call,
\* getEmbedding throws nothing and gives the backend's vector when an answer
\* with values came within the retries of transient failures, and the empty
\* vector otherwise; addDocument stores no entry for a fragment whose vector
\* is empty and goes on to the fragments after it, so that a finished call
\* tried them all and every stored entry carries the non-empty vector of its
\* own fragment.
C25_EmbeddingFailureSkipsFragment ==
    /\ \A apiOuts \in EmbedScripts({<<5, 1>>}) :
         /\ ~getEmbeddingResult(apiOuts).threw
         /\ getEmbedding(apiOuts) = IF EmbedSucceeds(apiOuts) THEN <<5, 1>> ELSE <<>>
    /\ \A c \in CallIds :
         LET cr == calls[c]
             okAt == SelectSeq([k \in DOMAIN cr.fragOk |-> k], LAMBDA k : cr.fragOk[k])
         IN /\ cr.pc \in {"idle", "await", "done"}
            /\ cr.pc = "await" => cr.i = Len(cr.fragOk) + 1 /\ cr.i <= Len(cr.chunks)
            /\ cr.pc = "done" => Len(cr.fragOk) = Len(cr.chunks)
            /\ Len(cr.appended) = Len(okAt)
            /\ cr.successCount = Len(okAt)
            /\ \A j \in DOMAIN cr.appended :
                 /\ documents[cr.appended[j]].text = cr.chunks[okAt[j]]
                 /\ documents[cr.appended[j]].embedding = BackendVector(cr.chunks[okAt[j]])
    /\ \A k \in DOMAIN documents : Len(documents[k].embedding) > 0

\* C25 happens: of the three fragments of a document the second got no
\* embedding; the call went on, indexed the first and the third, and
\* returned 2.
C25_Witness ==
    \E c \in CallIds :
        /\ calls[c].pc = "done"
        /\ calls[c].fragOk = <<TRUE, FALSE, TRUE>>
        /\ calls[c].result = 2
        /\ Len(documents) >= 2

\* C26: in a finished search whose query got an embedding, the score of an
\* entry is a number, and it is 0, whenever the query embedding or the
\* entry's embedding has magnitude zero.
C26_ZeroMagnitudeScoresZero ==
    (srPc = "done" /\ Len(srQueryEmbedding) > 0) =>
        \A k \in DOMAIN documents :
            LET IsZero(v) == \A i \in DOMAIN v : v[i] = 0
                score == cosineSimilarity(srQueryEmbedding, documents[k].embedding)
            IN (IsZero(srQueryEmbedding) \/ IsZero(documents[k].embedding))
                   => ~score.nan /\ score.dot = 0

\* C27: the embeddings of the corpus all have one length, and a finished
\* search returns no entry whose embedding differs in length from the query
\* embedding it was scored against.
C27_MismatchedDimensionsFail ==
    /\ \A j, k \in DOMAIN documents :
         Len(documents[j].embedding) = Len(documents[k].embedding)
    /\ srPc = "done" =>
         \A k \in DOMAIN srResult : Len(srResult[k].embedding) = Len(srQueryEmbedding)

C29_CorpusAppendOnly ==
    [][ /\ Len(documents') >= Len(documents)
        /\ SubSeq(documents', 1, Len(documents)) = documents
        /\ \A k \in DOMAIN documents' :
             /\ Len(documents'[k].embedding) > 0
             /\ documents'[k].embedding = BackendVector(documents'[k].text)
        /\ \A c \in CallIds :
             \A j \in DOMAIN calls'[c].appended :
                documents'[calls'[c].appended[j]].text \in Range(calls'[c].chunks)
        /\ \A k \in DOMAIN srResult' : srResult'[k] = documents'[srOrder'[k]]
      ]_vars

\* C29 happens: two overlapping addDocument calls left three entries (one
\* fragment was skipped), a search returned entries while the corpus was
\* still growing, and a callback was subscribed, ran and was unsubscribed.
C29_Witness ==
    /\ Len(documents) = 3
    /\ calls[1].pc = "done" /\ calls[2].pc = "done"
    /\ calls[1].result + calls[2].result = 3
    /\ srPc = "done" /\ Len(srResult) \in 1..2
    /\ Len(notified) > 0
    /\ listeners = <<>>

\* C30: no two entries of the corpus have the same id.
C30_IdsPairwiseDistinct ==
    \A j, k \in DOMAIN documents :
        j # k => documents[j].id # documents[k].id

\* C31: a finished fetchKnowledgeFromWeb threw nothing; its first request
\* went to the scrape proxy; when the proxy answered OK with non-empty
\* content that content is the result and no other request was made;
\* otherwise (rejection or timeout, non-OK status, unreadable body, missing
\* content) the second request is the search-grounded generative call, an
\* ungrounded call follows a grounded one exactly when that one was refused
\* for lack of permission, and the result is the text of the last run when
\* it succeeded and the empty string when every run failed.
C31_ScrapeThenGroundedThenEmpty ==
    web.pc = "done" =>
        LET r == web.scrape[1]
            Denied(att) == ~att.search.ok
                           /\ (att.search.error.status = 403
                               \/ Includes(att.search.error.message, "PERMISSION_DENIED"))
            Succeeded(att) == att.search.ok \/ (Denied(att) /\ att.plain.ok)
            KindAt(n) == web.log[n].kind
        IN /\ ~web.threw
           /\ KindAt(1) = "scrape" /\ web.log[1].url = "http://localhost:5000/scrape"
           /\ IF ~r.rejected /\ r.status = 200 /\ r.valid /\ r.content # ""
              THEN web.result = r.content /\ Len(web.log) = 1
              ELSE /\ Len(web.attempts) \in 1..4
                   /\ KindAt(2) = "search"
                   /\ \A n \in 2..Len(web.log) :
                        /\ KindAt(n) \in {"search", "plain"}
                        /\ web.log[n].tools = IF KindAt(n) = "search"
                                              THEN <<"googleSearch">> ELSE <<>>
                        /\ KindAt(n) = "plain" => KindAt(n - 1) = "search"
                   /\ Cardinality({ n \in DOMAIN web.log : KindAt(n) = "search" })
                        = Len(web.attempts)
                   /\ Cardinality({ n \in DOMAIN web.log : KindAt(n) = "plain" })
                        = Cardinality({ k \in DOMAIN web.attempts : Denied(web.attempts[k]) })
                   /\ \A k \in 1..(Len(web.attempts) - 1) : ~Succeeded(web.attempts[k])
                   /\ LET last == web.attempts[Len(web.attempts)]
                      IN web.result = IF Succeeded(last)
                                      THEN (IF last.search.ok THEN last.search.text
                                            ELSE last.plain.text)
                                      ELSE ""

\* C31 happens: the scraper was unreachable, the first grounded call failed
\* with a 500 and was retried, the second was refused for lack of
\* permission, and the ungrounded call gave the text.
C31_Witness ==
    /\ web.pc = "done"
    /\ web.scrape[1].rejected
    /\ Len(web.log) = 4
    /\ web.log[2].kind = "search" /\ web.log[3].kind = "search"
    /\ web.log[4].kind = "plain"
    /\ web.attempts[1].search.error.status = 500
    /\ web.result = "Ungrounded summary."

\* C32: withRetry with the defaults (3, 1000), on any sequence of outcomes of
\* fn, and withRetry(executeFetch, 3, 2000) as fetchKnowledgeFromWeb ran it:
\* fn is invoked at most retries + 1 times; every invocation but the last
\* failed with a transient error; the waits before the retries are delay,
\* 2 * delay, 4 * delay; a success ends it with that value; a non-transient
\* error ends it at once with that error; a transient error ends it, with
\* that error, only when it is the one of invocation retries + 1.
C32_RetryTransientWithDoubling ==
    LET Transient(e) == e.status = 500 \/ e.code = 500
                        \/ Includes(e.message, "Internal error")
        Backoff(delay, n) == [k \in 1..n |-> IF k = 1 THEN delay
                                             ELSE IF k = 2 THEN 2 * delay
                                             ELSE 4 * delay]
        Outcomes == { [ok |-> TRUE,  value |-> <<7>>, error |-> NoError],
                      [ok |-> FALSE, value |-> <<>>,  error |-> E500],
                      [ok |-> FALSE, value |-> <<>>,  error |-> ECode500],
                      [ok |-> FALSE, value |-> <<>>,  error |-> EInternal],
                      [ok |-> FALSE, value |-> <<>>,  error |-> E503] }
        Right(outs, r, retries, delay) ==
            /\ r.calls \in 1..(retries + 1)
            /\ \A k \in 1..(r.calls - 1) : ~outs[k].ok /\ Transient(outs[k].error)
            /\ r.waits = Backoff(delay, r.calls - 1)
            /\ r.ok = outs[r.calls].ok
            /\ r.ok => r.value = outs[r.calls].value
            /\ ~r.ok => /\ r.error = outs[r.calls].error
                        /\ Transient(r.error) => r.calls = retries + 1
    IN /\ \A outs \in [1..5 -> Outcomes] :
            Right(outs, withRetry(outs, 3, 1000), 3, 1000)
       /\ (web.pc = "done" /\ web.attempts # <<>>) =>
            LET outs == [k \in DOMAIN web.attempts |-> executeFetch(web.attempts[k])]
                n == Len(outs)
            IN Right(outs,
                     [ok |-> outs[n].ok, value |-> web.result, error |-> web.caught,
                      calls |-> n, waits |-> web.waits],
                     3, 2000)

\* C32 happens: three transient failures, waits of 2000, 4000 and 8000 ms,
\* and a fourth failure that was handed to the caller's catch.
C32_Witness ==
    /\ web.pc = "done"
    /\ Len(web.attempts) = 4
    /\ web.waits = <<2000, 4000, 8000>>
    /\ web.caught.status = 500
    /\ web.result = ""

\* C33: a call has an embedding request in flight only while it waits, and
\* then one, for the fragment it stands at; a step that puts a request in
\* flight puts the request of fragment 1 when the call starts, and otherwise
\* the request of the fragment after the one whose request this same step
\* saw resolved (with a vector or without), every earlier fragment's request
\* having resolved before.
C33_OneEmbeddingInFlightInOrder ==
    [][ \A c \in CallIds :
          LET a == calls[c]
              b == calls'[c]
          IN /\ b.pc \in {"idle", "await", "done"}
             /\ (b.pc = "await" /\ (a.pc # "await" \/ a.i # b.i)) =>
                  /\ b.i \in 1..Len(b.chunks)
                  /\ b.chunks = chunkText(b.text, 500)
                  /\ Len(b.fragOk) = b.i - 1
                  /\ a.pc = "idle" => b.i = 1
                  /\ a.pc = "await" => /\ b.i = a.i + 1
                                       /\ Len(a.fragOk) = a.i - 1
                                       /\ b.chunks = a.chunks
             /\ (a.pc = "await" /\ b.pc = "done") =>
                  a.i = Len(a.chunks) /\ Len(b.fragOk) = Len(a.chunks)
      ]_vars

\* C33 happens: the request of the third fragment is in flight after the
\* first fragment's request gave a vector and the second's gave none.
C33_Witness ==
    \E c \in CallIds :
        /\ calls[c].pc = "await"
        /\ calls[c].i = 3
        /\ calls[c].fragOk = <<TRUE, FALSE>>

\* C34: while generateVeoVideo waits for generateVideos or for a poll, a step
\* does one of three things: the operation answered "not done" and one more
\* poll is issued, whatever the number of polls made so far, the call still
\* running; the operation answered "done" and the chain returns the video
\* result; the backend call failed and the chain ends in its catch block.
\* So a video result is returned only on a "done" answer, and a call whose
\* operation is never done and whose polls never fail stays polling.
C34_VideoReturnsOnlyWhenDone ==
    [][ chat.pc \in {"video", "poll"} =>
          /\ chat.pc = "poll" => ~chat.operation.done /\ chat.polls >= 1
          /\ \/ /\ chat'.pc = "poll"
                /\ ~chat'.operation.done
                /\ chat'.polls = chat.polls + 1
                /\ chLog' = Append(chLog, Call("poll", VEO_MODEL, "", <<>>, <<>>, ""))
                /\ chOut' = chOut
             \/ /\ chat'.pc = "done"
                /\ chat'.operation.done
                /\ chat'.polls = chat.polls
                /\ chOut' = Return(VideoGenerated(chat.enhancedPrompt), <<>>, chat.imgData,
                                   IF chat'.operation.uri # ""
                                   THEN chat'.operation.uri \o "&key=" \o API_KEY ELSE "")
                /\ chLog' = chLog
             \/ /\ chat'.pc = "done"
                /\ chat'.operation = chat.operation
                /\ chat'.stepError \in ChatErrors
                /\ chOut' \in { Throw(Err(0, 0, PAYMENT_REQUIRED)),
                                Throw(chat'.stepError),
                                Return(PipelineFailure, <<>>, "", "") }
                /\ chLog' = chLog
      ]_vars

\* C34 happens: the operation has answered "not done" to generateVideos and
\* to every poll made, and the call is still polling.
C34_Witness ==
    /\ chat.pc = "poll"
    /\ chat.polls = MaxPolls
    /\ ~chat.operation.done
    /\ chOut = NoOutcome

\* C38: a result chatHybrid returns does not carry a generated image together
\* with the image-generation-failed notice in its text.
C38_NeverImageWithFailedNotice ==
    chOut.kind = "return" =>
        ~(chOut.generatedImage # "" /\ Includes(chOut.text, ImageFailedNotice))

\* C36: when both addDocument calls have returned, whatever the interleaving
\* of their embedding awaits was, each returned the number of entries it
\* appended itself; the corpus entries a call appended are, read in corpus
\* order, that call's fragments with a vector in fragment order, under that
\* call's source and category; every corpus entry was appended by exactly one
\* of the two calls; and the two return values add up to the corpus growth.
C36_OverlappingCallsKeepOwnCounts ==
    (\A c \in CallIds : calls[c].pc = "done") =>
        /\ \A c \in CallIds :
             LET cr == calls[c]
                 mine == SelectSeq([k \in DOMAIN documents |-> k],
                                   LAMBDA k : k \in Range(cr.appended))
                 okAt == SelectSeq([k \in DOMAIN cr.chunks |-> k],
                                   LAMBDA k : cr.fragOk[k])
             IN /\ cr.result = Len(mine)
                /\ cr.appended = mine
                /\ [j \in DOMAIN mine |-> documents[mine[j]].text]
                     = [j \in DOMAIN okAt |-> cr.chunks[okAt[j]]]
                /\ \A j \in DOMAIN mine :
                       /\ documents[mine[j]].source = cr.source
                       /\ documents[mine[j]].category = cr.category
        /\ \A k \in DOMAIN documents :
               Cardinality({ c \in CallIds : k \in Range(calls[c].appended) }) = 1
        /\ calls[1].result + calls[2].result = Len(documents)

\* C36 happens: both calls returned, and an entry of one call lies between
\* two entries of the other in the corpus.
C36_Witness ==
    /\ \A c \in CallIds : calls[c].pc = "done"
    /\ \E c, d \in CallIds :
         /\ c # d
         /\ \E i, j \in Range(calls[c].appended), k \in Range(calls[d].appended) :
                i < k /\ k < j

\* C39: a step of similaritySearch (its call, or the step in which the query
\* embedding resolves and the search runs to its end, whether it returns
\* entries, returns none or throws) leaves the corpus, entry by entry and in
\* order, and the subscriber list as they were and invokes no callback; a
\* step in which callbacks read getStats leaves the subscriber list as it was
\* and the corpus as addDocument left it, and the statistics read are those
\* of that corpus.
C39_SearchAndStatsReadOnly ==
    [][ /\ srPc' # srPc =>
             /\ documents' = documents
             /\ listeners' = listeners
             /\ notified' = notified
             /\ calls' = calls
        /\ notified' # notified =>
             /\ listeners' = listeners
             /\ SubSeq(documents', 1, Len(documents)) = documents
             /\ Len(documents') <= Len(documents) + 1
             /\ \A n \in (Len(notified) + 1)..Len(notified') :
                    notified'[n].stats = getStats(documents')
      ]_vars

\* C39 happens: a search over a corpus of three entries returned them in an
\* order that is not the corpus order, with a callback subscribed.
C39_Witness ==
    /\ srPc = "done"
    /\ Len(srOrder) = 3
    /\ \E k \in DOMAIN srOrder : srOrder[k] # k
    /\ Len(documents) = 3
    /\ listeners = <<"L1">>

\* How often the notification n has invoked the callback l so far.
InvokedTimes(n, l) ==
    Cardinality({ i \in DOMAIN n.events : n.events[i] = [op |-> "invoke", l |-> l] })

\* C35: callbacks may subscribe and unsubscribe while a notification runs.
\* The notification walks the callbacks registered when it began; none of
\* them is invoked twice; a callback that was not registered when it began,
\* subscribed by a callback during it, is not invoked in it; and when the
\* notification is over every callback that was registered when it began and
\* is registered now was invoked exactly once. A notification begins on the
\* callbacks registered at that moment, so a callback subscribed during the
\* one before, if still registered, is invoked, once, in this one.
C35_ReentrantSubscribeIsSafe ==
    /\ nt.pc = "running" /\ nt.events = <<>> => nt.array = listeners
    /\ \A l \in Callbacks :
         /\ InvokedTimes(nt, l) <= 1
         /\ l \notin Range(nt.array) => InvokedTimes(nt, l) = 0
    /\ nt.pc = "done" =>
         /\ \A l \in Range(nt.array) \cap Range(listeners) : InvokedTimes(nt, l) = 1
         /\ \A l \in nt.carry \cap Range(nt.array) : InvokedTimes(nt, l) = 1

\* C35 happens: a callback subscribed during the first notification was
\* invoked by the second, in which a callback unsubscribed another and a
\* callback subscribed a new one.
C35_Witness ==
    /\ nt.pc = "done"
    /\ nt.round = 2
    /\ \E l \in nt.carry : InvokedTimes(nt, l) = 1
    /\ \E i, j \in DOMAIN nt.events :
         nt.events[i].op = "unsubscribe" /\ nt.events[j].op = "subscribe"

====
